---- MODULE Spec2Model ----
(***************************************************************************)
(* A model of the sfv crate (Structured Field Values for HTTP): the        *)
(* validated bare items of src/bare_item*, the composite types of          *)
(* src/lib.rs and the canonical serializer of src/serializer.rs.           *)
(*                                                                         *)
(* Text is a sequence of Unicode scalar values (naturals).  A 64-bit       *)
(* integer and the 96-bit mantissa of a rust_decimal::Decimal do not fit   *)
(* the model checker's machine integers, so a number is kept as its sign   *)
(* and the sequence of its decimal digits, most significant first, and     *)
(* compared, truncated and rounded digit by digit.                         *)
(***************************************************************************)
EXTENDS Integers, Sequences, FiniteSets, TLC

(***************************************************************************)
(* Characters and text                                                     *)
(***************************************************************************)

\* The printable ASCII characters %x20-7E, in code order (the grave accent,
\* %x60, is written GRAVE).
AsciiTable ==
  << " ", "!", "\"", "#", "$", "%", "&", "'", "(", ")", "*", "+", ",", "-", ".", "/",
     "0", "1", "2", "3", "4", "5", "6", "7", "8", "9", ":", ";", "<", "=", ">", "?",
     "@", "A", "B", "C", "D", "E", "F", "G", "H", "I", "J", "K", "L", "M", "N", "O",
     "P", "Q", "R", "S", "T", "U", "V", "W", "X", "Y", "Z", "[", "\\", "]", "^", "_",
     "GRAVE", "a", "b", "c", "d", "e", "f", "g", "h", "i", "j", "k", "l", "m", "n", "o",
     "p", "q", "r", "s", "t", "u", "v", "w", "x", "y", "z", "{", "|", "}", "~" >>

\* The code of a printable ASCII character written as a one-character string.
Ord(c) == 31 + (CHOOSE i \in 1..Len(AsciiTable) : AsciiTable[i] = c)

\* The text whose characters are written one per element: Str(<<"a", "b">>).
Str(cs) == [i \in 1..Len(cs) |-> Ord(cs[i])]

\* char::is_ascii_lowercase, is_ascii_uppercase, is_ascii_alphabetic, is_ascii_digit
is_ascii_lowercase(c) == Ord("a") <= c /\ c <= Ord("z")
is_ascii_uppercase(c) == Ord("A") <= c /\ c <= Ord("Z")
is_ascii_alphabetic(c) == is_ascii_lowercase(c) \/ is_ascii_uppercase(c)
is_ascii_digit(c) == Ord("0") <= c /\ c <= Ord("9")

\* str::is_ascii: every character is below 0x80
is_ascii(value) == \A i \in 1..Len(value) : value[i] <= 127

\* Iterator::any over the characters of a text
any(value, P(_)) == \E i \in 1..Len(value) : P(value[i])

\* str::contains(char)
contains(text, c) == \E i \in 1..Len(text) : text[i] = c

(***************************************************************************)
(* Numbers as digit sequences                                              *)
(***************************************************************************)

\* n copies of the digit d
Rep(d, n) == [i \in 1..n |-> d]

\* The digits without leading zeros; zero is <<0>>.
RECURSIVE Strip(_)
Strip(m) == IF Len(m) > 1 /\ m[1] = 0 THEN Strip(Tail(m)) ELSE m

\* a < b for digit sequences of the same length
LexLt(a, b) ==
  \E i \in 1..Len(a) : a[i] < b[i] /\ \A j \in 1..(i - 1) : a[j] = b[j]

\* a <= b for naturals in stripped form
NatLe(a, b) == Len(a) < Len(b) \/ (Len(a) = Len(b) /\ (a = b \/ LexLt(a, b)))

\* a + 1 for a natural in stripped form
Inc(m) ==
  LET below9 == {i \in 1..Len(m) : m[i] # 9}
  IN  IF below9 = {} THEN <<1>> \o Rep(0, Len(m))
      ELSE LET j == CHOOSE i \in below9 : \A k \in below9 : k <= i
           IN  [i \in 1..Len(m) |-> IF i < j THEN m[i] ELSE IF i = j THEN m[i] + 1 ELSE 0]

\* A signed integer: sign and magnitude.  Zero is never negative.
I64(neg, mag) == [neg |-> neg, mag |-> mag]

\* x <= y for signed integers (i64 comparison)
i64_le(x, y) ==
  IF x.neg /\ ~y.neg THEN TRUE
  ELSE IF ~x.neg /\ y.neg THEN FALSE
  ELSE IF x.neg THEN NatLe(y.mag, x.mag)
  ELSE NatLe(x.mag, y.mag)

\* The characters of the decimal digits of a natural
DigitChars(m) == [i \in 1..Len(m) |-> Ord("0") + m[i]]

\* i64::to_string
i64_to_string(v) == (IF v.neg THEN Str(<<"-">>) ELSE <<>>) \o DigitChars(v.mag)

(***************************************************************************)
(* SFVResult                                                               *)
(***************************************************************************)

Ok(v) == [ok |-> TRUE, val |-> v, err |-> ""]
Err(e) == [ok |-> FALSE, val |-> <<>>, err |-> e]

(***************************************************************************)
(* BareItemInteger                                                         *)
(***************************************************************************)

\* A faulty variant of validate: the upper comparison is strict.
BareItemInteger_validate_strict(value) ==
  LET min_int == I64(TRUE, Rep(9, 15))
      max_int == I64(FALSE, Rep(9, 15))
  IN  IF ~(i64_le(min_int, value) /\ i64_le(value, max_int) /\ value # max_int)
      THEN Err("serialize_integer: integer is out of range")
      ELSE Ok(value)

\* validate: Ok(value) when min_int <= value <= max_int
BareItemInteger_validate(value) ==
  LET min_int == I64(TRUE, Rep(9, 15))
      max_int == I64(FALSE, Rep(9, 15))
  IN  IF ~(i64_le(min_int, value) /\ i64_le(value, max_int))
      THEN Err("serialize_integer: integer is out of range")
      ELSE Ok(value)

BareItemInteger_serialize_ref(value, output) == output \o i64_to_string(value)

(***************************************************************************)
(* BareItemDecimal over rust_decimal::Decimal                              *)
(***************************************************************************)

\* A rust_decimal::Decimal: sign, mantissa and scale; its value is
\* mantissa / 10^scale.
Decimal(neg, m, scale) == [neg |-> neg, m |-> m, scale |-> scale]

\* The mantissa's digits, padded on the left so that at least one digit
\* stands before the last `scale` ones.
Padded(d) ==
  IF Len(d.m) > d.scale THEN d.m ELSE Rep(0, d.scale + 1 - Len(d.m)) \o d.m

\* The digits of the integer part and of the fractional part (scale digits)
IntDigits(d) == SubSeq(Padded(d), 1, Len(Padded(d)) - d.scale)
FracDigits(d) == SubSeq(Padded(d), Len(Padded(d)) - d.scale + 1, Len(Padded(d)))

\* A faulty variant of round_dp: a midpoint is rounded away from zero.
round_dp_half_up(d, dp) ==
  IF d.scale <= dp THEN d
  ELSE LET k == d.scale - dp
           p == Padded(d)
           kept == SubSeq(p, 1, Len(p) - k)
           dropped == SubSeq(p, Len(p) - k + 1, Len(p))
           half == <<5>> \o Rep(0, k - 1)
           up == ~LexLt(dropped, half)
       IN  Decimal(d.neg, Strip(IF up THEN Inc(kept) ELSE kept), dp)

\* Decimal::round_dp: a value of scale <= dp is returned as it is; otherwise
\* the mantissa is divided by 10^(scale - dp), the remainder is compared with
\* the midpoint 5 * 10^(scale - dp - 1), and a remainder above the midpoint,
\* or at the midpoint with an odd quotient, adds one (banker's rounding).
\* The result has scale dp.
round_dp(d, dp) ==
  IF d.scale <= dp THEN d
  ELSE LET k == d.scale - dp
           p == Padded(d)
           kept == SubSeq(p, 1, Len(p) - k)
           dropped == SubSeq(p, Len(p) - k + 1, Len(p))
           half == <<5>> \o Rep(0, k - 1)
           up == IF dropped = half THEN kept[Len(kept)] % 2 = 1
                 ELSE LexLt(half, dropped)
       IN  Decimal(d.neg, Strip(IF up THEN Inc(kept) ELSE kept), dp)

\* Decimal::trunc: the integer part, scale 0
trunc(d) == Decimal(d.neg, Strip(IntDigits(d)), 0)

\* Decimal::abs
abs(d) == [d EXCEPT !.neg = FALSE]

\* u64::MAX = 18446744073709551615
u64_MAX == <<1, 8, 4, 4, 6, 7, 4, 4, 0, 7, 3, 7, 0, 9, 5, 5, 1, 6, 1, 5>>

\* ToPrimitive::to_u64: None (<<>>) for a negative value or an integer part
\* above u64::MAX, else Some(integer part)
to_u64(d) ==
  IF d.neg \/ ~NatLe(Strip(IntDigits(d)), u64_MAX) THEN <<>>
  ELSE <<Strip(IntDigits(d))>>

\* Decimal::fract().is_zero()
fract_is_zero(d) == \A i \in 1..Len(FracDigits(d)) : FracDigits(d)[i] = 0

\* Display for Decimal: the integer digits, then "." and the scale fractional
\* digits; with a precision (Some(n) is <<n>>) the fractional digits are cut
\* or zero-padded to n digits.
Decimal_fmt(d, precision) ==
  LET frac == IF precision = <<>> THEN FracDigits(d)
              ELSE SubSeq(FracDigits(d) \o Rep(0, precision[1]), 1, precision[1])
  IN  (IF d.neg THEN Str(<<"-">>) ELSE <<>>)
      \o DigitChars(IntDigits(d))
      \o (IF frac = <<>> THEN <<>> ELSE Str(<<".">>) \o DigitChars(frac))

\* A faulty variant of validate: the integer part is range-checked on the
\* value as given, before rounding.
BareItemDecimal_validate_check_first(value) ==
  LET fraction_length == 3
      decimal == round_dp(value, fraction_length)
      int_comp == to_u64(abs(trunc(value)))
  IN  IF int_comp = <<>>
      THEN Err("serialize_decimal: integer component > 12 digits")
      ELSE IF ~NatLe(int_comp[1], Rep(9, 12))
      THEN Err("serialize_decimal: integer component > 12 digits")
      ELSE Ok(decimal)

\* validate: round to 3 fractional digits, then check the integer part
BareItemDecimal_validate(value) ==
  LET fraction_length == 3
      decimal == round_dp(value, fraction_length)
      int_comp == to_u64(abs(trunc(decimal)))
  IN  IF int_comp = <<>>
      THEN Err("serialize_decimal: integer component > 12 digits")
      ELSE IF ~NatLe(int_comp[1], Rep(9, 12))
      THEN Err("serialize_decimal: integer component > 12 digits")
      ELSE Ok(decimal)

BareItemDecimal_serialize_ref(value, output) ==
  LET decimal == value
  IN  IF fract_is_zero(decimal)
      THEN output \o Decimal_fmt(decimal, <<1>>)
      ELSE output \o Decimal_fmt(decimal, <<>>)

(***************************************************************************)
(* BareItemString                                                          *)
(***************************************************************************)

\* A faulty variant of vchar_or_sp: DEL is not looked for.
vchar_or_sp_without_del(char) == 0 <= char /\ char <= 31

\* The closure vchar_or_sp of validate: true of DEL and of %x00-1F
vchar_or_sp(char) == char = 127 \/ (0 <= char /\ char <= 31)

BareItemString_validate(value) ==
  IF ~is_ascii(value) THEN Err("serialize_string: non-ascii character")
  ELSE IF any(value, vchar_or_sp)
  THEN Err("serialize_string: not a visible character")
  ELSE Ok(value)

\* A faulty variant of the loop: only DQUOTE gets a backslash.
RECURSIVE escaped_only_dquote(_)
escaped_only_dquote(value) ==
  IF value = <<>> THEN <<>>
  ELSE LET char == Head(value)
       IN  (IF char = Ord("\"") THEN <<Ord("\\")>> ELSE <<>>)
           \o <<char>> \o escaped_only_dquote(Tail(value))

\* serialize_ref: DQUOTE, each character with a backslash before "\" and
\* DQUOTE, DQUOTE
RECURSIVE escaped(_)
escaped(value) ==
  IF value = <<>> THEN <<>>
  ELSE LET char == Head(value)
       IN  (IF char = Ord("\\") \/ char = Ord("\"") THEN <<Ord("\\")>> ELSE <<>>)
           \o <<char>> \o escaped(Tail(value))

BareItemString_serialize_ref(value, output) ==
  output \o Str(<<"\"">>) \o escaped(value) \o Str(<<"\"">>)

(***************************************************************************)
(* BareItemToken                                                           *)
(***************************************************************************)

\* utils::is_tchar: the tchar set of the token grammar,
\* "!" / "#" / "$" / "%" / "&" / "'" / "*" / "+" / "-" / "." / "^" / "_" /
\* "`" / "|" / "~" / DIGIT / ALPHA
is_tchar(c) ==
  \/ is_ascii_alphabetic(c)
  \/ is_ascii_digit(c)
  \/ c \in {Ord("!"), Ord("#"), Ord("$"), Ord("%"), Ord("&"), Ord("'"), Ord("*"),
            Ord("+"), Ord("-"), Ord("."), Ord("^"), Ord("_"), Ord("GRAVE"),
            Ord("|"), Ord("~")}

\* The closure of validate's second test: a character that is no tchar,
\* ":" or "/"
token_disallowed(c) == ~(is_tchar(c) \/ c = Ord(":") \/ c = Ord("/"))

\* validate: the text is ASCII, its first character (when there is one) is
\* ALPHA or "*", and no later character is disallowed
BareItemToken_validate(value) ==
  IF ~is_ascii(value) THEN Err("serialize_string: non-ascii character")
  ELSE IF value # <<>> /\ ~(is_ascii_alphabetic(Head(value)) \/ Head(value) = Ord("*"))
  THEN Err("serialise_token: first character is not ALPHA or '*'")
  ELSE IF value # <<>> /\ any(Tail(value), token_disallowed)
  THEN Err("serialise_token: disallowed character")
  ELSE Ok(value)

BareItemToken_serialize_ref(value, output) == output \o value

(***************************************************************************)
(* BareItemBoolean, BareItemByteSeq                                        *)
(***************************************************************************)

BareItemBoolean_serialize_ref(value, output) ==
  LET val == IF value THEN Str(<<"?", "1">>) ELSE Str(<<"?", "0">>)
  IN  output \o val

\* The character of a base64 digit 0..63: A-Z, a-z, 0-9, "+", "/"
base64_char(i) ==
  IF i < 26 THEN Ord("A") + i
  ELSE IF i < 52 THEN Ord("a") + (i - 26)
  ELSE IF i < 62 THEN Ord("0") + (i - 52)
  ELSE IF i = 62 THEN Ord("+") ELSE Ord("/")

\* data_encoding::BASE64.encode: three bytes give four digits; a last group
\* of one or two bytes is padded with "="
RECURSIVE BASE64_encode(_)
BASE64_encode(bytes) ==
  IF bytes = <<>> THEN <<>>
  ELSE IF Len(bytes) = 1 THEN
    LET n == bytes[1] * 16
    IN  <<base64_char(n \div 64), base64_char(n % 64), Ord("="), Ord("=")>>
  ELSE IF Len(bytes) = 2 THEN
    LET n == (bytes[1] * 256 + bytes[2]) * 4
    IN  <<base64_char(n \div 4096), base64_char((n \div 64) % 64),
          base64_char(n % 64), Ord("=")>>
  ELSE
    LET n == bytes[1] * 65536 + bytes[2] * 256 + bytes[3]
    IN  <<base64_char(n \div 262144), base64_char((n \div 4096) % 64),
          base64_char((n \div 64) % 64), base64_char(n % 64)>>
        \o BASE64_encode(SubSeq(bytes, 4, Len(bytes)))

BareItemByteSeq_serialize_ref(value, output) ==
  output \o Str(<<":">>) \o BASE64_encode(value) \o Str(<<":">>)

(***************************************************************************)
(* BareItem                                                                *)
(***************************************************************************)

\* A value of an enum is a record with one field, named after its variant.
is(value, variant) == variant \in DOMAIN value

\* The variants of the enum BareItem, each holding its newtype's value
BareItem_Decimal(v) == [Decimal |-> v]
BareItem_Integer(v) == [Integer |-> v]
BareItem_String(v) == [String |-> v]
BareItem_ByteSeq(v) == [ByteSeq |-> v]
BareItem_Boolean(v) == [Boolean |-> v]
BareItem_Token(v) == [Token |-> v]

\* `?` on a validation result, then the variant around the validated value
new_decimal(value) ==
  LET r == BareItemDecimal_validate(value)
  IN  IF r.ok THEN Ok(BareItem_Decimal(r.val)) ELSE r

new_integer(value) ==
  LET r == BareItemInteger_validate(value)
  IN  IF r.ok THEN Ok(BareItem_Integer(r.val)) ELSE r

new_string(value) ==
  LET r == BareItemString_validate(value)
  IN  IF r.ok THEN Ok(BareItem_String(r.val)) ELSE r

new_byte_seq(value) == Ok(BareItem_ByteSeq(value))

new_boolean(value) == Ok(BareItem_Boolean(value))

new_token(value) ==
  LET r == BareItemToken_validate(value)
  IN  IF r.ok THEN Ok(BareItem_Token(r.val)) ELSE r

\* BareItem::write: the variant's serialize_ref on the buffer; never an error
BareItem_write(self, output) ==
  CASE is(self, "Integer") -> BareItemInteger_serialize_ref(self.Integer, output)
    [] is(self, "Decimal") -> BareItemDecimal_serialize_ref(self.Decimal, output)
    [] is(self, "String") -> BareItemString_serialize_ref(self.String, output)
    [] is(self, "ByteSeq") -> BareItemByteSeq_serialize_ref(self.ByteSeq, output)
    [] is(self, "Boolean") -> BareItemBoolean_serialize_ref(self.Boolean, output)
    [] is(self, "Token") -> BareItemToken_serialize_ref(self.Token, output)

\* The read accessors: Some(value) is <<value>>, None is <<>>
as_decimal(self) == IF is(self, "Decimal") THEN <<self.Decimal>> ELSE <<>>

as_int(self) == IF is(self, "Integer") THEN <<self.Integer>> ELSE <<>>

as_str(self) == IF is(self, "String") THEN <<self.String>> ELSE <<>>

as_byte_seq(self) == IF is(self, "ByteSeq") THEN <<self.ByteSeq>> ELSE <<>>

as_bool(self) == IF is(self, "Boolean") THEN <<self.Boolean>> ELSE <<>>

\* A faulty variant of as_token: the text of a String is returned as well.
as_token_of_any_text(self) ==
  IF is(self, "Token") THEN <<self.Token>>
  ELSE IF is(self, "String") THEN <<self.String>> ELSE <<>>

as_token(self) == IF is(self, "Token") THEN <<self.Token>> ELSE <<>>

(***************************************************************************)
(* RefBareItem                                                             *)
(***************************************************************************)

RefBareItem_Integer(v) == [RefInteger |-> v]
RefBareItem_Decimal(v) == [RefDecimal |-> v]
RefBareItem_String(v) == [RefString |-> v]
RefBareItem_ByteSeq(v) == [RefByteSeq |-> v]
RefBareItem_Boolean(v) == [RefBoolean |-> v]
RefBareItem_Token(v) == [RefToken |-> v]

\* A faulty variant: a Token is handed on as a String.
to_ref_bare_item_token_as_string(self) ==
  CASE is(self, "Integer") -> RefBareItem_Integer(self.Integer)
    [] is(self, "Decimal") -> RefBareItem_Decimal(self.Decimal)
    [] is(self, "String") -> RefBareItem_String(self.String)
    [] is(self, "ByteSeq") -> RefBareItem_ByteSeq(self.ByteSeq)
    [] is(self, "Boolean") -> RefBareItem_Boolean(self.Boolean)
    [] is(self, "Token") -> RefBareItem_String(self.Token)

\* BareItem::to_ref_bare_item
to_ref_bare_item(self) ==
  CASE is(self, "Integer") -> RefBareItem_Integer(self.Integer)
    [] is(self, "Decimal") -> RefBareItem_Decimal(self.Decimal)
    [] is(self, "String") -> RefBareItem_String(self.String)
    [] is(self, "ByteSeq") -> RefBareItem_ByteSeq(self.ByteSeq)
    [] is(self, "Boolean") -> RefBareItem_Boolean(self.Boolean)
    [] is(self, "Token") -> RefBareItem_Token(self.Token)

\* RefBareItem::write (ref_serializer.rs): the per-variant writers of the
\* bare items, on the borrowed value; never an error
RefBareItem_write(self, output) ==
  CASE is(self, "RefInteger") -> BareItemInteger_serialize_ref(self.RefInteger, output)
    [] is(self, "RefDecimal") -> BareItemDecimal_serialize_ref(self.RefDecimal, output)
    [] is(self, "RefString") -> BareItemString_serialize_ref(self.RefString, output)
    [] is(self, "RefByteSeq") -> BareItemByteSeq_serialize_ref(self.RefByteSeq, output)
    [] is(self, "RefBoolean") -> BareItemBoolean_serialize_ref(self.RefBoolean, output)
    [] is(self, "RefToken") -> BareItemToken_serialize_ref(self.RefToken, output)

(***************************************************************************)
(* Item, Parameters, InnerList, ListEntry, List, Dictionary                *)
(***************************************************************************)

\* An IndexMap is the sequence of its <<key, value>> entries, in order.
IndexMap_new == <<>>

IndexMap_contains_key(map, key) == \E i \in 1..Len(map) : map[i][1] = key

\* A faulty variant of insert: an entry whose key is already there is
\* removed and the new entry is put last.
IndexMap_insert_moving_to_end(map, key, value) ==
  Append(SelectSeq(map, LAMBDA e : e[1] # key), <<key, value>>)

\* IndexMap::insert: the value of a key already there is replaced in its
\* place; a new key is appended
IndexMap_insert(map, key, value) ==
  IF IndexMap_contains_key(map, key)
  THEN [i \in 1..Len(map) |-> IF map[i][1] = key THEN <<key, value>> ELSE map[i]]
  ELSE Append(map, <<key, value>>)

Parameters_new == IndexMap_new

Item_with_params(bare_item, params) == [bare_item |-> bare_item, params |-> params]
Item_new(bare_item) == Item_with_params(bare_item, Parameters_new)

InnerList_with_params(items, params) == [items |-> items, params |-> params]
InnerList_new(items) == InnerList_with_params(items, Parameters_new)

ListEntry_Item(item) == [Item |-> item]
ListEntry_InnerList(inner_list) == [InnerList |-> inner_list]

(***************************************************************************)
(* Serializer.  A function writing into `output` returns how it ended and  *)
(* the buffer as it leaves it.                                             *)
(***************************************************************************)

Wrote(output) == [ok |-> TRUE, err |-> "", out |-> output]
Failed(e, output) == [ok |-> FALSE, err |-> e, out |-> output]

\* `r?` and what follows: when r failed it is what the function returns, with
\* the buffer as r left it; otherwise K goes on with the buffer.  (r is
\* bound as a value, so that it is computed once.)
Then(r, K(_)) == CHOOSE x \in {IF v.ok THEN K(v.out) ELSE v : v \in {r}} : TRUE

\* The closure disallowed_chars of serialize_key
disallowed_chars(c) ==
  ~(is_ascii_lowercase(c) \/ is_ascii_digit(c) \/ contains(Str(<<"_", "-", "*", ".">>), c))

serialize_key(input_key, output) ==
  IF any(input_key, disallowed_chars)
  THEN Failed("serialize_key: disallowed character in input", output)
  ELSE IF input_key # <<>>
          /\ ~(is_ascii_lowercase(Head(input_key)) \/ Head(input_key) = Ord("*"))
  THEN Failed("serialize_key: first character is not lcalpha or '*'", output)
  ELSE Wrote(output \o input_key)

serialize_ref_bare_item(value, output) == Wrote(RefBareItem_write(value, output))

serialize_bare_item(input_bare_item, output) ==
  Wrote(BareItem_write(input_bare_item, output))

\* A faulty variant: the value of every parameter is written, true included.
param_value_is_written_always(value) == TRUE

\* The test of serialize_ref_parameter: "=" and the value follow the key
\* unless the value is Boolean true
param_value_is_written(value) == value # RefBareItem_Boolean(TRUE)

serialize_ref_parameter(name, value, output) ==
  Then(serialize_key(name, output \o Str(<<";">>)),
       LAMBDA out :
         IF param_value_is_written(value)
         THEN serialize_ref_bare_item(value, out \o Str(<<"=">>))
         ELSE Wrote(out))

\* The loop of serialize_parameters from entry i on
RECURSIVE serialize_parameters_from(_, _, _)
serialize_parameters_from(input_params, i, output) ==
  IF i > Len(input_params) THEN Wrote(output)
  ELSE Then(serialize_ref_parameter(input_params[i][1],
                                    to_ref_bare_item(input_params[i][2]), output),
            LAMBDA out : serialize_parameters_from(input_params, i + 1, out))

serialize_parameters(input_params, output) ==
  serialize_parameters_from(input_params, 1, output)

\* A faulty variant: the result of serialize_parameters is not looked at.
serialize_item_ignoring_parameters(input_item, output) ==
  Then(serialize_bare_item(input_item.bare_item, output),
       LAMBDA out : Wrote(serialize_parameters(input_item.params, out).out))

serialize_item(input_item, output) ==
  Then(serialize_bare_item(input_item.bare_item, output),
       LAMBDA out : serialize_parameters(input_item.params, out))

\* A faulty variant: a space follows every item, the last included.
inner_list_more_remain_always(idx, len) == idx < len

\* `idx < items.len() - 1` of serialize_inner_list
inner_list_more_remain(idx, len) == idx < len - 1

\* The loop of serialize_inner_list from item i on (idx = i - 1)
RECURSIVE serialize_inner_list_from(_, _, _)
serialize_inner_list_from(items, i, output) ==
  IF i > Len(items) THEN Wrote(output)
  ELSE Then(serialize_item(items[i], output),
            LAMBDA out :
              serialize_inner_list_from(items, i + 1,
                IF inner_list_more_remain(i - 1, Len(items))
                THEN out \o Str(<<" ">>) ELSE out))

serialize_inner_list(input_inner_list, output) ==
  LET items == input_inner_list.items
      inner_list_parameters == input_inner_list.params
  IN  Then(serialize_inner_list_from(items, 1, output \o Str(<<"(">>)),
           LAMBDA out : serialize_parameters(inner_list_parameters, out \o Str(<<")">>)))

\* A faulty variant: the separator follows every member, the last included.
list_more_remain_always(idx, len) == idx < len

\* `idx < input_list.len() - 1` of serialize_list
list_more_remain(idx, len) == idx < len - 1

\* The match on member of serialize_list
serialize_list_member(member, output) ==
  IF is(member, "Item") THEN serialize_item(member.Item, output)
  ELSE serialize_inner_list(member.InnerList, output)

\* The loop of serialize_list from member i on (idx = i - 1)
RECURSIVE serialize_list_from(_, _, _)
serialize_list_from(input_list, i, output) ==
  IF i > Len(input_list) THEN Wrote(output)
  ELSE Then(serialize_list_member(input_list[i], output),
            LAMBDA out :
              serialize_list_from(input_list, i + 1,
                IF list_more_remain(i - 1, Len(input_list))
                THEN out \o Str(<<",", " ">>) ELSE out))

\* A faulty variant: an empty list is serialized as the empty text.
list_is_refused_never(input_list) == FALSE

\* `input_list.is_empty()` of serialize_list
list_is_refused(input_list) == input_list = <<>>

serialize_list(input_list, output) ==
  IF list_is_refused(input_list)
  THEN Failed("serialize_list: serializing empty field is not allowed", output)
  ELSE serialize_list_from(input_list, 1, output)

\* A faulty variant: a true member is abbreviated only without parameters.
dict_member_is_abbreviated_bare(item) ==
  item.bare_item = BareItem_Boolean(TRUE) /\ item.params = <<>>

\* `item.bare_item == BareItem::Boolean(true.into())` of serialize_dict
dict_member_is_abbreviated(item) == item.bare_item = BareItem_Boolean(TRUE)

\* The match on member_value of serialize_dict
serialize_dict_member_value(member_value, output) ==
  IF is(member_value, "Item")
  THEN IF dict_member_is_abbreviated(member_value.Item)
       THEN serialize_parameters(member_value.Item.params, output)
       ELSE serialize_item(member_value.Item, output \o Str(<<"=">>))
  ELSE serialize_inner_list(member_value.InnerList, output \o Str(<<"=">>))

\* `idx < input_dict.len() - 1` of serialize_dict
dict_more_remain(idx, len) == idx < len - 1

\* The loop of serialize_dict from member i on (idx = i - 1)
RECURSIVE serialize_dict_from(_, _, _)
serialize_dict_from(input_dict, i, output) ==
  IF i > Len(input_dict) THEN Wrote(output)
  ELSE LET member_name == input_dict[i][1]
           member_value == input_dict[i][2]
       IN  Then(serialize_key(member_name, output),
             LAMBDA key_out :
               Then(serialize_dict_member_value(member_value, key_out),
                 LAMBDA out :
                   serialize_dict_from(input_dict, i + 1,
                     IF dict_more_remain(i - 1, Len(input_dict))
                     THEN out \o Str(<<",", " ">>) ELSE out)))

serialize_dict(input_dict, output) ==
  IF input_dict = <<>>
  THEN Failed("serialize_dictionary: serializing empty field is not allowed", output)
  ELSE serialize_dict_from(input_dict, 1, output)

\* SerializeValue::serialize_value for Dictionary, List and Item: a new
\* buffer, the Serializer function with `?`, Ok(output)
serialize_value_result(r) == IF r.ok THEN Ok(r.out) ELSE Err(r.err)

Dictionary_serialize_value(self) == serialize_dict(self, <<>>)
List_serialize_value(self) == serialize_list(self, <<>>)
Item_serialize_value(self) == serialize_item(self, <<>>)

(***************************************************************************)
(* Parser (spec, 4.2 and the grammar of 6).  A parsing function is given   *)
(* the characters not yet consumed and returns the value parsed and the    *)
(* characters left, or an error.                                           *)
(***************************************************************************)

Parsed(v, rest) == [ok |-> TRUE, val |-> v, rest |-> rest, err |-> ""]
ParseErr(e) == [ok |-> FALSE, val |-> <<>>, rest |-> <<>>, err |-> e]

\* The first error aborts the parse; otherwise K goes on with the value and
\* the characters left.  (r is bound as a value, so that it is computed once.)
AndThen(r, K(_, _)) ==
  CHOOSE x \in {IF v.ok THEN K(v.val, v.rest) ELSE v : v \in {r}} : TRUE

\* The length of the longest prefix whose characters all satisfy P
PrefixLen(s, P(_)) ==
  LET others == {i \in 1..Len(s) : ~P(s[i])}
  IN  IF others = {} THEN Len(s)
      ELSE (CHOOSE i \in others : \A j \in others : i <= j) - 1

\* The characters after the first n
Drop_n(s, n) == SubSeq(s, n + 1, Len(s))

is_sp(c) == c = Ord(" ")
is_ows(c) == c = Ord(" ") \/ c = 9

\* Spaces, and optional whitespace (space or tab), are skipped
consume_sp_chars(s) == Drop_n(s, PrefixLen(s, is_sp))
consume_ows_chars(s) == Drop_n(s, PrefixLen(s, is_ows))

\* The digits that a run of digit characters writes
DigitsOf(cs) == [i \in 1..Len(cs) |-> cs[i] - Ord("0")]

\* A number: the sign once, then digits; with a "." after them a decimal of
\* at most 12 integer digits and 1 to 3 fractional digits, without one an
\* integer of at most 15 digits.  The value goes through the constructor.
parse_number(s) ==
  LET neg == s # <<>> /\ Head(s) = Ord("-")
      s1 == IF neg THEN Tail(s) ELSE s
      n == PrefixLen(s1, is_ascii_digit)
      int_digits == DigitsOf(SubSeq(s1, 1, n))
      s2 == Drop_n(s1, n)
      is_decimal == s2 # <<>> /\ Head(s2) = Ord(".")
      s3 == IF is_decimal THEN Tail(s2) ELSE s2
      f == PrefixLen(s3, is_ascii_digit)
      frac_digits == DigitsOf(SubSeq(s3, 1, f))
      mantissa == Strip(IF is_decimal THEN int_digits \o frac_digits ELSE int_digits)
      negative == neg /\ mantissa # <<0>>
  IN  IF n = 0 THEN ParseErr("parse_number: no digit")
      ELSE IF ~is_decimal
      THEN IF n > 15 THEN ParseErr("parse_number: integer of more than 15 digits")
           ELSE AndThen(Parsed(new_integer(I64(negative, mantissa)), s2),
                        LAMBDA r, rest : IF r.ok THEN Parsed(r.val, rest) ELSE ParseErr(r.err))
      ELSE IF n > 12 THEN ParseErr("parse_number: decimal of more than 12 integer digits")
      ELSE IF f = 0 THEN ParseErr("parse_number: decimal ends with '.'")
      ELSE IF f > 3 THEN ParseErr("parse_number: decimal of more than 3 fractional digits")
      ELSE AndThen(Parsed(new_decimal(Decimal(negative, mantissa, f)), Drop_n(s3, f)),
                   LAMBDA r, rest : IF r.ok THEN Parsed(r.val, rest) ELSE ParseErr(r.err))

\* A string after its opening DQUOTE: up to the DQUOTE that no backslash
\* precedes; a backslash must precede DQUOTE or a backslash, and is dropped;
\* a character outside %x20-7E is an error, and so is the end of the input.
RECURSIVE parse_string_from(_, _)
parse_string_from(s, value) ==
  IF s = <<>> THEN ParseErr("parse_string: no closing DQUOTE")
  ELSE IF Head(s) = Ord("\\")
  THEN IF Len(s) < 2 THEN ParseErr("parse_string: last input character is a backslash")
       ELSE IF s[2] \notin {Ord("\""), Ord("\\")}
       THEN ParseErr("parse_string: disallowed character after '\\'")
       ELSE parse_string_from(Drop_n(s, 2), Append(value, s[2]))
  ELSE IF Head(s) = Ord("\"")
  THEN AndThen(Parsed(new_string(value), Tail(s)),
               LAMBDA r, rest : IF r.ok THEN Parsed(r.val, rest) ELSE ParseErr(r.err))
  ELSE IF Head(s) < 32 \/ Head(s) > 126
  THEN ParseErr("parse_string: not a visible character")
  ELSE parse_string_from(Tail(s), Append(value, Head(s)))

parse_string(s) == parse_string_from(Tail(s), <<>>)

\* A token: the longest run of tchar, ":" and "/" after the first character
parse_token(s) ==
  LET n == 1 + PrefixLen(Tail(s), LAMBDA c : ~token_disallowed(c))
  IN  AndThen(Parsed(new_token(SubSeq(s, 1, n)), Drop_n(s, n)),
              LAMBDA r, rest : IF r.ok THEN Parsed(r.val, rest) ELSE ParseErr(r.err))

\* A boolean: "?" and then "0" or "1"
parse_bool(s) ==
  IF Len(s) >= 2 /\ s[2] = Ord("1") THEN Parsed(new_boolean(TRUE).val, Drop_n(s, 2))
  ELSE IF Len(s) >= 2 /\ s[2] = Ord("0") THEN Parsed(new_boolean(FALSE).val, Drop_n(s, 2))
  ELSE ParseErr("parse_bool: no 0 or 1 after '?'")

\* The value 0..63 of a base64 digit; 64 for any other character
base64_value(c) ==
  IF is_ascii_uppercase(c) THEN c - Ord("A")
  ELSE IF is_ascii_lowercase(c) THEN c - Ord("a") + 26
  ELSE IF is_ascii_digit(c) THEN c - Ord("0") + 52
  ELSE IF c = Ord("+") THEN 62
  ELSE IF c = Ord("/") THEN 63
  ELSE 64

\* Standard base64 with padding, decoded four characters at a time: the
\* bytes in a sequence <<bytes>>, or <<>> when the text is no base64
RECURSIVE BASE64_decode(_)
BASE64_decode(cs) ==
  IF cs = <<>> THEN <<<<>>>>
  ELSE IF Len(cs) < 4 THEN <<>>
  ELSE LET v == [i \in 1..4 |-> base64_value(cs[i])]
           pad == Ord("=")
       IN  IF v[1] = 64 \/ v[2] = 64 THEN <<>>
           ELSE IF Len(cs) = 4 /\ cs[3] = pad /\ cs[4] = pad
           THEN IF v[2] % 16 # 0 THEN <<>>
                ELSE <<<<v[1] * 4 + v[2] \div 16>>>>
           ELSE IF v[3] = 64 THEN <<>>
           ELSE IF Len(cs) = 4 /\ cs[4] = pad
           THEN IF v[3] % 4 # 0 THEN <<>>
                ELSE <<<<v[1] * 4 + v[2] \div 16, (v[2] % 16) * 16 + v[3] \div 4>>>>
           ELSE IF v[4] = 64 THEN <<>>
           ELSE LET more == BASE64_decode(Drop_n(cs, 4))
                IN  IF more = <<>> THEN <<>>
                    ELSE << <<v[1] * 4 + v[2] \div 16, (v[2] % 16) * 16 + v[3] \div 4,
                              (v[3] % 4) * 64 + v[4]>> \o more[1] >>

\* A byte sequence: the characters up to the next ":", decoded as base64
parse_byte_sequence(s) ==
  LET body_len == PrefixLen(Tail(s), LAMBDA c : c # Ord(":"))
      body == SubSeq(Tail(s), 1, body_len)
  IN  IF body_len = Len(Tail(s)) THEN ParseErr("parse_byte_seq: no closing ':'")
      ELSE AndThen(Parsed(BASE64_decode(body), Drop_n(s, body_len + 2)),
                   LAMBDA bytes, rest :
                     IF bytes = <<>> THEN ParseErr("parse_byte_seq: decoding error")
                     ELSE Parsed(new_byte_seq(bytes[1]).val, rest))

\* A bare item, by its first character
parse_bare_item(s) ==
  IF s = <<>> THEN ParseErr("parse_bare_item: empty item")
  ELSE IF Head(s) = Ord("-") \/ is_ascii_digit(Head(s)) THEN parse_number(s)
  ELSE IF Head(s) = Ord("\"") THEN parse_string(s)
  ELSE IF Head(s) = Ord(":") THEN parse_byte_sequence(s)
  ELSE IF Head(s) = Ord("?") THEN parse_bool(s)
  ELSE IF is_ascii_alphabetic(Head(s)) \/ Head(s) = Ord("*") THEN parse_token(s)
  ELSE ParseErr("parse_bare_item: item type can't be identified")

\* A character that may follow the first one of a key
is_key_char(c) ==
  is_ascii_lowercase(c) \/ is_ascii_digit(c) \/ c \in {Ord("_"), Ord("-"), Ord("."), Ord("*")}

\* A key: lcalpha or "*", then the longest run of key characters
parse_key(s) ==
  IF s = <<>> \/ ~(is_ascii_lowercase(Head(s)) \/ Head(s) = Ord("*"))
  THEN ParseErr("parse_key: first character is not lcalpha or '*'")
  ELSE LET n == 1 + PrefixLen(Tail(s), is_key_char)
       IN  Parsed(SubSeq(s, 1, n), Drop_n(s, n))

\* Parameters: while a ";" comes, spaces, a key, and "=" with a bare item or
\* else the value true; a key met again takes the later value
RECURSIVE parse_parameters_from(_, _)
parse_parameters_from(s, parameters) ==
  IF s = <<>> \/ Head(s) # Ord(";") THEN Parsed(parameters, s)
  ELSE AndThen(parse_key(consume_sp_chars(Tail(s))),
         LAMBDA param_name, after_key :
           IF after_key # <<>> /\ Head(after_key) = Ord("=")
           THEN AndThen(parse_bare_item(Tail(after_key)),
                  LAMBDA param_value, rest :
                    parse_parameters_from(rest,
                      IndexMap_insert(parameters, param_name, param_value)))
           ELSE parse_parameters_from(after_key,
                  IndexMap_insert(parameters, param_name, new_boolean(TRUE).val)))

parse_parameters(s) == parse_parameters_from(s, Parameters_new)

\* An item: a bare item, then its parameters
Parser_parse_item_from(s) ==
  AndThen(parse_bare_item(s),
    LAMBDA bare, after_bare :
      AndThen(parse_parameters(after_bare),
        LAMBDA parameters, rest : Parsed(Item_with_params(bare, parameters), rest)))

\* An inner list after its "(": spaces, then ")" and the parameters of the
\* inner list, or an item, which a space or ")" must follow
RECURSIVE parse_inner_list_from(_, _)
parse_inner_list_from(s, items) ==
  LET s1 == consume_sp_chars(s)
  IN  IF s1 = <<>> THEN ParseErr("parse_inner_list: the end of the inner list was not found")
      ELSE IF Head(s1) = Ord(")")
      THEN AndThen(parse_parameters(Tail(s1)),
             LAMBDA parameters, rest : Parsed(InnerList_with_params(items, parameters), rest))
      ELSE AndThen(Parser_parse_item_from(s1),
             LAMBDA parsed_item, rest :
               IF rest # <<>> /\ Head(rest) \in {Ord(" "), Ord(")")}
               THEN parse_inner_list_from(rest, Append(items, parsed_item))
               ELSE ParseErr("parse_inner_list: bad delimitation"))

parse_inner_list(s) == parse_inner_list_from(Tail(s), <<>>)

\* A member of a list: an inner list when "(" comes, else an item
parse_list_entry(s) ==
  IF s # <<>> /\ Head(s) = Ord("(")
  THEN AndThen(parse_inner_list(s), LAMBDA il, rest : Parsed(ListEntry_InnerList(il), rest))
  ELSE AndThen(Parser_parse_item_from(s), LAMBDA it, rest : Parsed(ListEntry_Item(it), rest))

\* What follows a member of a list or dictionary: the end of the input, or
\* "," within optional whitespace and then another member.  The value is the
\* characters of the next member in a sequence, <<>> at the end of the input.
after_member(s) ==
  LET s1 == consume_ows_chars(s)
  IN  IF s1 = <<>> THEN Parsed(<<>>, <<>>)
      ELSE IF Head(s1) # Ord(",")
      THEN ParseErr("parse: trailing characters after member")
      ELSE IF consume_ows_chars(Tail(s1)) = <<>> THEN ParseErr("parse: trailing comma")
      ELSE Parsed(<<consume_ows_chars(Tail(s1))>>, <<>>)

\* A list: members with "," between them; no input gives no member
RECURSIVE parse_list_from(_, _)
parse_list_from(s, members) ==
  IF s = <<>> THEN Parsed(members, s)
  ELSE AndThen(parse_list_entry(s),
         LAMBDA member, after :
           AndThen(after_member(after),
             LAMBDA next, none :
               IF next = <<>> THEN Parsed(Append(members, member), <<>>)
               ELSE parse_list_from(next[1], Append(members, member))))

\* A dictionary: members of a key and, after "=", an item or inner list; a
\* key without "=" has the value true with the parameters that follow it; a
\* key met again takes the later member
RECURSIVE parse_dict_from(_, _)
parse_dict_from(s, dictionary) ==
  IF s = <<>> THEN Parsed(dictionary, s)
  ELSE AndThen(parse_key(s),
         LAMBDA this_key, after_key :
           AndThen(IF after_key # <<>> /\ Head(after_key) = Ord("=")
                   THEN parse_list_entry(Tail(after_key))
                   ELSE AndThen(parse_parameters(after_key),
                          LAMBDA parameters, rest :
                            Parsed(ListEntry_Item(
                                     Item_with_params(new_boolean(TRUE).val, parameters)),
                                   rest)),
             LAMBDA member, after :
               AndThen(after_member(after),
                 LAMBDA next, none :
                   IF next = <<>> THEN Parsed(IndexMap_insert(dictionary, this_key, member), <<>>)
                   ELSE parse_dict_from(next[1],
                                        IndexMap_insert(dictionary, this_key, member)))))

\* An entry point: ASCII input, spaces before and after the value, and
\* nothing else left
Parser_parse(input, P(_)) ==
  IF ~is_ascii(input) THEN Err("parse: non-ascii characters in input")
  ELSE CHOOSE x \in
         { IF ~r.ok THEN Err(r.err)
           ELSE IF consume_sp_chars(r.rest) # <<>>
           THEN Err("parse: trailing characters after parsed value")
           ELSE Ok(r.val) : r \in {P(consume_sp_chars(input))} } : TRUE

Parser_parse_item(input) ==
  Parser_parse(input, Parser_parse_item_from)

Parser_parse_list(input) ==
  Parser_parse(input, LAMBDA s : parse_list_from(s, <<>>))

Parser_parse_dictionary(input) ==
  Parser_parse(input, LAMBDA s : parse_dict_from(s, IndexMap_new))

(***************************************************************************)
(* Bounds and the inputs the calls are made with                           *)
(***************************************************************************)

\* The longest text given to new_string, new_token and serialize_key
MaxTextLen == 2
\* The most entries of a Parameters map built by insertion
MaxParams == 2
\* The most members of a List or Dictionary
MaxMembers == 2

\* All texts of at most n characters over an alphabet
RECURSIVE Texts(_, _)
Texts(alphabet, n) ==
  IF n = 0 THEN {<<>>}
  ELSE LET shorter == Texts(alphabet, n - 1)
       IN  shorter \cup {Append(t, c) : t \in shorter, c \in alphabet}

I64_MAX == I64(FALSE, <<9, 2, 2, 3, 3, 7, 2, 0, 3, 6, 8, 5, 4, 7, 7, 5, 8, 0, 7>>)
I64_MIN == I64(TRUE, <<9, 2, 2, 3, 3, 7, 2, 0, 3, 6, 8, 5, 4, 7, 7, 5, 8, 0, 8>>)

\* 64-bit inputs of new_integer: small values, the range's ends, the first
\* values beyond them, and the ends of i64
IntegerInputs ==
  { I64(FALSE, <<0>>), I64(FALSE, <<4, 2>>), I64(TRUE, <<1>>), I64(FALSE, <<9, 9>>),
    I64(FALSE, Rep(9, 14)), I64(TRUE, Rep(9, 14)),
    I64(FALSE, Rep(9, 14) \o <<8>>), I64(TRUE, Rep(9, 14) \o <<8>>),
    I64(FALSE, Rep(9, 15)), I64(TRUE, Rep(9, 15)),
    I64(FALSE, <<1>> \o Rep(0, 15)), I64(TRUE, <<1>> \o Rep(0, 15)),
    I64(FALSE, <<1>> \o Rep(0, 14) \o <<1>>), I64(FALSE, Rep(9, 16)),
    I64_MAX, I64_MIN }

\* Inputs of new_decimal, written mantissa and scale
D_13_4565 == Decimal(FALSE, <<1, 3, 4, 5, 6, 5>>, 4)
D_13_45655 == Decimal(FALSE, <<1, 3, 4, 5, 6, 5, 5>>, 5)
D_13_4575 == Decimal(FALSE, <<1, 3, 4, 5, 7, 5>>, 4)
D_13_4564 == Decimal(FALSE, <<1, 3, 4, 5, 6, 4>>, 4)
D_neg_13_4565 == Decimal(TRUE, <<1, 3, 4, 5, 6, 5>>, 4)
D_2_0 == Decimal(FALSE, <<2, 0>>, 1)
D_2 == Decimal(FALSE, <<2>>, 0)
D_1_50 == Decimal(FALSE, <<1, 5, 0>>, 2)
D_1_5000 == Decimal(FALSE, <<1, 5, 0, 0, 0>>, 4)
D_12_445 == Decimal(FALSE, <<1, 2, 4, 4, 5>>, 3)
D_0_0005 == Decimal(FALSE, <<5>>, 4)
D_0_9995 == Decimal(FALSE, <<9, 9, 9, 5>>, 4)
D_neg_0_5 == Decimal(TRUE, <<5>>, 1)
D_999999999999_999 == Decimal(FALSE, Rep(9, 15), 3)
D_neg_999999999999_999 == Decimal(TRUE, Rep(9, 15), 3)
D_999999999999_9994 == Decimal(FALSE, Rep(9, 15) \o <<4>>, 4)
D_999999999999_9995 == Decimal(FALSE, Rep(9, 15) \o <<5>>, 4)
D_999999999999_9996 == Decimal(FALSE, Rep(9, 15) \o <<6>>, 4)
D_neg_999999999999_9996 == Decimal(TRUE, Rep(9, 15) \o <<6>>, 4)
D_1000000000000_1 == Decimal(FALSE, <<1>> \o Rep(0, 12) \o <<1>>, 1)
D_1000000000000 == Decimal(FALSE, <<1>> \o Rep(0, 12), 0)
D_12345678912345_123 ==
  Decimal(FALSE, <<1, 2, 3, 4, 5, 6, 7, 8, 9, 1, 2, 3, 4, 5, 1, 2, 3>>, 3)
D_20000000000000000000_5 == Decimal(FALSE, <<2>> \o Rep(0, 19) \o <<5>>, 1)

DecimalInputs ==
  { D_13_4565, D_13_45655, D_13_4575, D_13_4564, D_neg_13_4565, D_2_0, D_2, D_1_50,
    D_1_5000, D_12_445, D_0_0005, D_0_9995, D_neg_0_5, D_999999999999_999,
    D_neg_999999999999_999, D_999999999999_9994, D_999999999999_9995,
    D_999999999999_9996, D_neg_999999999999_9996, D_1000000000000_1,
    D_1000000000000, D_12345678912345_123, D_20000000000000000000_5 }

\* Characters of the texts given to new_string: NUL, US, SP, DQUOTE, "\",
\* "a", "~", DEL, U+0080 and U+1F439
StringAlphabet == {0, 31, Ord(" "), Ord("\""), Ord("\\"), Ord("a"), Ord("~"), 127, 128, 128057}
StringInputs == Texts(StringAlphabet, MaxTextLen)

\* Characters of the texts given to new_token
TokenAlphabet ==
  { Ord("a"), Ord("Z"), Ord("*"), Ord("1"), Ord(":"), Ord("/"), Ord("!"), Ord(" "),
    Ord("\""), Ord("("), 233 }
TokenInputs == Texts(TokenAlphabet, MaxTextLen)

\* Characters of the keys given to serialize_key
KeyAlphabet ==
  { Ord("a"), Ord("z"), Ord("A"), Ord("0"), Ord("_"), Ord("-"), Ord("."), Ord("*"),
    Ord(" "), 233 }
KeyInputs == Texts(KeyAlphabet, MaxTextLen)

\* Inputs of new_byte_seq: no byte, one, two, three, and "hello"
ByteSeqInputs == {<<>>, <<0>>, <<255, 254>>, <<1, 2, 3>>, <<104, 101, 108, 108, 111>>}

\* The value of a call that cannot fail on its input
unwrap(r) == r.val

\* Bare items held by the members of composite values
B_true == unwrap(new_boolean(TRUE))
B_false == unwrap(new_boolean(FALSE))
B_99 == unwrap(new_integer(I64(FALSE, <<9, 9>>)))
B_foo == unwrap(new_string(Str(<<"f", "o", "\"">>)))
B_tok == unwrap(new_token(Str(<<"t", "o", "k">>)))
B_dec == unwrap(new_decimal(D_13_45655))

\* Keys of the parameters and dictionary members: two that match the key
\* grammar, the empty key, and two that serialize_key refuses for different
\* reasons
K_a == Str(<<"a">>)
K_b == Str(<<"b", "-">>)
K_empty == <<>>
K_upper == Str(<<"A">>)
K_digit == Str(<<"1">>)
Keys == {K_a, K_b, K_empty, K_upper, K_digit}
DictKeys == {K_a, K_b, K_empty, K_upper}

ParamValues == {B_true, B_false, B_99, B_foo}
ItemValues == {B_true, B_99, B_foo}

\* Parameters of the members of lists and dictionaries
P_a == IndexMap_insert(Parameters_new, K_a, B_true)
P_ab == IndexMap_insert(IndexMap_insert(Parameters_new, K_a, B_false), K_b, B_tok)
P_upper == IndexMap_insert(Parameters_new, K_upper, B_99)
P_digit == IndexMap_insert(IndexMap_insert(Parameters_new, K_a, B_99), K_digit, B_true)

\* What the buffer given to a Serializer function holds before the call
Buffers == {<<>>, Str(<<"9", "9">>)}

\* Items, inner lists and the entries made of them
MenuItems ==
  { Item_new(B_true), Item_new(B_false), Item_new(B_tok), Item_new(B_foo),
    Item_with_params(B_true, P_a), Item_with_params(B_true, P_upper),
    Item_with_params(B_false, P_ab), Item_with_params(B_99, P_digit),
    Item_with_params(B_dec, P_a) }

MenuInnerLists ==
  { InnerList_new(<<>>),
    InnerList_with_params(<<>>, P_a),
    InnerList_new(<<Item_new(B_99)>>),
    InnerList_with_params(<<Item_with_params(B_99, P_ab), Item_new(B_foo)>>, P_a),
    InnerList_with_params(<<Item_new(B_true), Item_with_params(B_tok, P_upper)>>, P_digit),
    InnerList_with_params(<<Item_with_params(B_true, P_digit), Item_new(B_false)>>, P_upper),
    InnerList_with_params(<<Item_new(B_true)>>, P_upper) }

ListEntries ==
  {ListEntry_Item(i) : i \in MenuItems} \cup {ListEntry_InnerList(l) : l \in MenuInnerLists}

DictEntries ==
  {ListEntry_Item(i) : i \in
     { Item_new(B_true), Item_new(B_false),
       Item_with_params(B_true, P_a), Item_with_params(B_99, P_digit) }}
  \cup {ListEntry_InnerList(l) : l \in
     { InnerList_with_params(<<Item_with_params(B_99, P_ab), Item_new(B_true)>>, P_a),
       InnerList_with_params(<<Item_new(B_true), Item_with_params(B_tok, P_upper)>>, P_digit) }}

\* Item texts that the grammar allows, each with its canonical form: as
\* written, or with leading zeros, spaces after ";", "=?1" and overwritten
\* parameters removed
ItemForms ==
  { <<Str(<<"1", ";", "b", "=", ":", "a", "G", "k", "=", ":", ";", "t", "=", "t", "o", "k", ";", "y">>),
      Str(<<"1", ";", "b", "=", ":", "a", "G", "k", "=", ":", ";", "t", "=", "t", "o", "k", ";", "y">>)>>,
    <<Str(<<"\"", "a", " ", "b", "\"">>), Str(<<"\"", "a", " ", "b", "\"">>)>>,
    <<Str(<<"\"", "a", "\\", "\"", "\\", "\\", "\"">>),
      Str(<<"\"", "a", "\\", "\"", "\\", "\\", "\"">>)>>,
    <<Str(<<"t", "o", "k">>), Str(<<"t", "o", "k">>)>>,
    <<Str(<<"*", "t", "/", "k", ":", "1">>), Str(<<"*", "t", "/", "k", ":", "1">>)>>,
    <<Str(<<"4", "2">>), Str(<<"4", "2">>)>>,
    <<Str(<<"-", "7">>), Str(<<"-", "7">>)>>,
    <<Str(<<"0", "0", "7">>), Str(<<"7">>)>>,
    <<Str(<<"1", ".", "5">>), Str(<<"1", ".", "5">>)>>,
    <<Str(<<"2", ".", "0">>), Str(<<"2", ".", "0">>)>>,
    <<Str(<<"-", "0", ".", "1", "2", "5">>), Str(<<"-", "0", ".", "1", "2", "5">>)>>,
    <<Str(<<"9", "9", "9", "9", "9", "9", "9", "9", "9", "9", "9", "9", ".", "9", "9", "9">>),
      Str(<<"9", "9", "9", "9", "9", "9", "9", "9", "9", "9", "9", "9", ".", "9", "9", "9">>)>>,
    <<Str(<<"?", "1">>), Str(<<"?", "1">>)>>,
    <<Str(<<"?", "0">>), Str(<<"?", "0">>)>>,
    <<Str(<<":", "a", "G", "k", "=", ":">>), Str(<<":", "a", "G", "k", "=", ":">>)>>,
    <<Str(<<":", ":">>), Str(<<":", ":">>)>>,
    <<Str(<<"a", ";", "x">>), Str(<<"a", ";", "x">>)>>,
    <<Str(<<"a", ";", " ", " ", "x">>), Str(<<"a", ";", "x">>)>>,
    <<Str(<<"a", ";", "x", "=", "?", "1">>), Str(<<"a", ";", "x">>)>>,
    <<Str(<<"a", ";", "x", "=", "1", ";", "y", ";", "x", "=", "2">>),
      Str(<<"a", ";", "x", "=", "2", ";", "y">>)>>,
    <<Str(<<"1", ";", "a", ";", "b", "-", "=", "t", "o", "k">>),
      Str(<<"1", ";", "a", ";", "b", "-", "=", "t", "o", "k">>)>>,
    <<Str(<<"1", "2", ".", "4", "4", "5", ";", "f", "o", "o", "=", "b", "a", "r">>),
      Str(<<"1", "2", ".", "4", "4", "5", ";", "f", "o", "o", "=", "b", "a", "r">>)>> }

\* Item texts of decimals written with zeros that end the fraction, which the
\* canonical text of a Decimal does not have
DecimalForms ==
  { <<Str(<<"1", ".", "5", "0">>), Str(<<"1", ".", "5">>)>>,
    <<Str(<<"-", "3", ".", "1", "0", "0", ";", "x", "=", "0", ".", "5", "0">>),
      Str(<<"-", "3", ".", "1", ";", "x", "=", "0", ".", "5">>)>> }

\* Inner-list texts with their canonical forms: one space between items,
\* none after "(" or before ")"
InnerListForms ==
  { <<Str(<<"(", ")">>), Str(<<"(", ")">>)>>,
    <<Str(<<"(", " ", " ", ")">>), Str(<<"(", ")">>)>>,
    <<Str(<<"(", "a", " ", " ", "b", ")">>), Str(<<"(", "a", " ", "b", ")">>)>>,
    <<Str(<<"(", " ", "1", " ", "2", " ", ")", ";", "q">>),
      Str(<<"(", "1", " ", "2", ")", ";", "q">>)>>,
    <<Str(<<"(", "\"", "a", "\"", " ", "b", ";", "x", ")", ";", "y", "=", "?", "0">>),
      Str(<<"(", "\"", "a", "\"", " ", "b", ";", "x", ")", ";", "y", "=", "?", "0">>)>>,
    <<Str(<<"(", "9", "9", ";", "k", "e", "y", "=", "?", "0", " ", "\"", "f", "o", "o", "\"", ")", ";", "b", "a", "r">>),
      Str(<<"(", "9", "9", ";", "k", "e", "y", "=", "?", "0", " ", "\"", "f", "o", "o", "\"", ")", ";", "b", "a", "r">>)>> }

\* The separator of members: "," within optional spaces and tabs
SeparatorForms ==
  { Str(<<",">>),
    Str(<<",", " ">>),
    Str(<<" ", ",">>) \o <<9>> \o <<9>>,
    <<9>> \o Str(<<",", " ">>) }

\* The example of serialize_value's documentation
LondonBerlin ==
  { <<Str(<<"\"", "l", "o", "n", "d", "o", "n", "\"", ",", " ">>) \o <<9>> \o <<9>> \o Str(<<"\"", "b", "e", "r", "l", "i", "n", "\"">>),
      Str(<<"\"", "l", "o", "n", "d", "o", "n", "\"", ",", " ", "\"", "b", "e", "r", "l", "i", "n", "\"">>)>> }

\* Dictionary members with their canonical forms
DictionaryMemberForms ==
  { <<Str(<<"a", "=", "?", "0">>), Str(<<"a", "=", "?", "0">>)>>,
    <<Str(<<"b">>), Str(<<"b">>)>>,
    <<Str(<<"b", "=", "?", "1">>), Str(<<"b">>)>>,
    <<Str(<<"c", ";", "f", "o", "o", "=", "b", "a", "r">>),
      Str(<<"c", ";", "f", "o", "o", "=", "b", "a", "r">>)>>,
    <<Str(<<"c", "=", "?", "1", ";", " ", "f", "o", "o", "=", "b", "a", "r">>),
      Str(<<"c", ";", "f", "o", "o", "=", "b", "a", "r">>)>>,
    <<Str(<<"d", "=", "(", "1", " ", " ", "2", ")", ";", "x">>),
      Str(<<"d", "=", "(", "1", " ", "2", ")", ";", "x">>)>>,
    <<Str(<<"e", "-", "1", "=", "\"", "s", "\"">>),
      Str(<<"e", "-", "1", "=", "\"", "s", "\"">>)>>,
    <<Str(<<"*", "k", "=", "t", "o", "k", ";", "x", "=", "0", "0", "7">>),
      Str(<<"*", "k", "=", "t", "o", "k", ";", "x", "=", "7">>)>> }

\* Dictionaries in which a key comes twice: the first place, the last value
DuplicateKeyForms ==
  { <<Str(<<"a", "=", "1", ",", " ", "b", ",", " ", "a", "=", "2">>),
      Str(<<"a", "=", "2", ",", " ", "b">>)>>,
    <<Str(<<"a", ",", " ", "a", "=", "?", "0">>), Str(<<"a", "=", "?", "0">>)>>,
    <<Str(<<"a", "=", "(", "1", ")", ",", " ", "a">>), Str(<<"a">>)>> }

\* Texts that no entry point accepts
MalformedTexts ==
  { Str(<<"a", ",">>),
    Str(<<"a", " ", ",">>) \o <<9>>,
    Str(<<"a", " ", "b">>),
    Str(<<"(", "a">>),
    Str(<<"(", "a", " ", "b">>),
    Str(<<"\"", "a">>),
    Str(<<"\"", "a", "\\", "b", "\"">>),
    Str(<<"1", ".">>),
    Str(<<"1", ".", "2", "3", "4", "5">>),
    Str(<<"1", "2", "3", "4", "5", "6", "7", "8", "9", "0", "1", "2", "3", "4", "5", "6">>),
    Str(<<"1", "2", "3", "4", "5", "6", "7", "8", "9", "0", "1", "2", "3", ".", "0">>),
    Str(<<"-">>),
    Str(<<"?", "2">>),
    Str(<<":", "a", ":">>),
    Str(<<":", "a", "G", "k", "=">>),
    Str(<<"a", ";">>),
    Str(<<"a", ";", "X">>),
    <<9>> \o Str(<<"a">>),
    Str(<<"a">>) \o <<9>>,
    <<233>>,
    Str(<<"a", ",", ",", "b">>),
    Str(<<"(", "a", ")", "b">>),
    Str(<<"=", "1">>),
    Str(<<"A", "=", "1", ",", " ">>) }

\* A form with spaces before and after the written text
Spaced(f) == <<Str(<<" ">>) \o f[1] \o Str(<<" ", " ">>), f[2]>>

\* Two forms with a separator between the written texts
Separated(f, sep, g) == <<f[1] \o sep \o g[1], f[2] \o Str(<<",", " ">>) \o g[2]>>

\* The written forms given to parse_item, parse_list and parse_dictionary
\* that the grammar allows, each with its canonical form
ValidItemForms ==
  LET forms == ItemForms \cup DecimalForms
  IN  forms \cup {Spaced(f) : f \in forms}

ValidListForms ==
  LET members == ItemForms \cup DecimalForms \cup InnerListForms
  IN  members \cup {Spaced(f) : f \in members} \cup LondonBerlin
      \cup {Separated(f, sep, g) :
              f \in members, sep \in SeparatorForms, g \in InnerListForms \cup DecimalForms}

ValidDictionaryForms ==
  DictionaryMemberForms \cup {Spaced(f) : f \in DictionaryMemberForms} \cup DuplicateKeyForms
  \cup UNION {{Separated(f, sep, g) :
                 sep \in SeparatorForms,
                 g \in {h \in DictionaryMemberForms : h[1][1] # f[1][1]}} :
              f \in DictionaryMemberForms}

\* The inputs of the three entry points
ParseItemInputs == {f[1] : f \in ValidItemForms} \cup MalformedTexts \cup {<<>>}
ParseListInputs == {f[1] : f \in ValidListForms} \cup MalformedTexts \cup {<<>>}
ParseDictionaryInputs == {f[1] : f \in ValidDictionaryForms} \cup MalformedTexts \cup {<<>>}

(***************************************************************************)
(* The state: the values a caller holds and its last call                  *)
(***************************************************************************)

VARIABLES
  bare_item,  \* the BareItem held: <<>> or <<b>>
  params,     \* the Parameters map being built
  item,       \* the Item held: <<>> or <<i>>
  list,       \* the List being built
  dict,       \* the Dictionary being built
  call,       \* the last call: its name and its argument
  result,     \* what the last call returned: an SFVResult, or an accessor's Option
  output      \* the buffer of the last Serializer call, as the call left it

vars == <<bare_item, params, item, list, dict, call, result, output>>

Call(op, arg) == [op |-> op, arg |-> arg]

Init ==
  /\ bare_item = <<>>
  /\ params = Parameters_new
  /\ item = <<>>
  /\ list = <<>>
  /\ dict = IndexMap_new
  /\ call = Call("none", <<>>)
  /\ result = Ok(<<>>)
  /\ output = <<>>

\* The caller holds no value
Idle == bare_item = <<>> /\ params = <<>> /\ item = <<>> /\ list = <<>> /\ dict = <<>>

\* The caller holds no value and no result of an earlier call
Fresh == Idle /\ call.op = "none"

\* A constructor call: the BareItem of an Ok is held, an Err leaves nothing
Construct(op, arg, r) ==
  /\ bare_item' = IF r.ok THEN <<r.val>> ELSE <<>>
  /\ call' = Call(op, arg)
  /\ result' = r
  /\ output' = <<>>
  /\ UNCHANGED <<params, item, list, dict>>

\* BareItem::new_integer(value)
NewInteger ==
  /\ Fresh
  /\ \E value \in IntegerInputs : Construct("new_integer", value, new_integer(value))

\* BareItem::new_decimal(value)
NewDecimal ==
  /\ Fresh
  /\ \E value \in DecimalInputs : Construct("new_decimal", value, new_decimal(value))

\* BareItem::try_from(bare_item.as_decimal().unwrap()): the decimal of the
\* bare item held is given to new_decimal again
NewDecimalAgain ==
  /\ bare_item # <<>>
  /\ as_decimal(bare_item[1]) # <<>>
  /\ \E value \in {as_decimal(bare_item[1])[1]} :
       Construct("new_decimal", value, new_decimal(value))

\* BareItem::new_string(value)
NewString ==
  /\ Fresh
  /\ \E value \in StringInputs : Construct("new_string", value, new_string(value))

\* BareItem::new_token(value)
NewToken ==
  /\ Fresh
  /\ \E value \in TokenInputs : Construct("new_token", value, new_token(value))

\* BareItem::new_byte_seq(value)
NewByteSeq ==
  /\ Fresh
  /\ \E value \in ByteSeqInputs : Construct("new_byte_seq", value, new_byte_seq(value))

\* BareItem::new_boolean(value)
NewBoolean ==
  /\ Fresh
  /\ \E value \in BOOLEAN : Construct("new_boolean", value, new_boolean(value))

\* A read accessor called on the bare item held, which it leaves alone
Access(op, r) ==
  /\ call' = Call(op, <<>>)
  /\ result' = r
  /\ output' = <<>>
  /\ UNCHANGED <<bare_item, params, item, list, dict>>

\* bare_item.as_decimal()
AsDecimal ==
  /\ bare_item # <<>>
  /\ Access("as_decimal", as_decimal(bare_item[1]))

\* bare_item.as_int()
AsInt ==
  /\ bare_item # <<>>
  /\ Access("as_int", as_int(bare_item[1]))

\* bare_item.as_str()
AsStr ==
  /\ bare_item # <<>>
  /\ Access("as_str", as_str(bare_item[1]))

\* bare_item.as_byte_seq()
AsByteSeq ==
  /\ bare_item # <<>>
  /\ Access("as_byte_seq", as_byte_seq(bare_item[1]))

\* bare_item.as_bool()
AsBool ==
  /\ bare_item # <<>>
  /\ Access("as_bool", as_bool(bare_item[1]))

\* bare_item.as_token()
AsToken ==
  /\ bare_item # <<>>
  /\ Access("as_token", as_token(bare_item[1]))

\* Item::new(bare_item): the bare item moves into the item
ItemNew ==
  /\ bare_item # <<>>
  /\ item' = <<Item_new(bare_item[1])>>
  /\ bare_item' = <<>>
  /\ call' = Call("Item::new", <<>>)
  /\ result' = Ok(<<>>)
  /\ output' = <<>>
  /\ UNCHANGED <<params, list, dict>>

\* params.insert(key, value)
ParamsInsert ==
  /\ bare_item = <<>> /\ item = <<>> /\ list = <<>> /\ dict = <<>>
  /\ \E key \in Keys, value \in ParamValues :
       /\ IndexMap_contains_key(params, key) \/ Len(params) < MaxParams
       /\ params' = IndexMap_insert(params, key, value)
       /\ call' = Call("Parameters::insert", <<key, value>>)
  /\ result' = Ok(<<>>)
  /\ output' = <<>>
  /\ UNCHANGED <<bare_item, item, list, dict>>

\* Item::with_params(bare_item, params): the map moves into the item
ItemWithParams ==
  /\ bare_item = <<>> /\ item = <<>> /\ list = <<>> /\ dict = <<>>
  /\ \E b \in ItemValues : item' = <<Item_with_params(b, params)>>
  /\ params' = Parameters_new
  /\ call' = Call("Item::with_params", <<>>)
  /\ result' = Ok(<<>>)
  /\ output' = <<>>
  /\ UNCHANGED <<bare_item, list, dict>>

\* A serialize_value call, or a call of a Serializer function on a new buffer
Serialized(op, arg, r) ==
  /\ call' = Call(op, arg)
  /\ result' = serialize_value_result(r)
  /\ output' = r.out
  /\ UNCHANGED <<bare_item, params, item, list, dict>>

\* item.serialize_value()
SerializeItem ==
  /\ item # <<>>
  /\ Serialized("Item::serialize_value", <<>>, Item_serialize_value(item[1]))

\* list.push(entry)
ListPush ==
  /\ bare_item = <<>> /\ params = <<>> /\ item = <<>> /\ dict = <<>>
  /\ Len(list) < MaxMembers
  /\ \E entry \in ListEntries :
       /\ list' = Append(list, entry)
       /\ call' = Call("List::push", entry)
  /\ result' = Ok(<<>>)
  /\ output' = <<>>
  /\ UNCHANGED <<bare_item, params, item, dict>>

\* list.serialize_value()
SerializeList ==
  /\ bare_item = <<>> /\ params = <<>> /\ item = <<>> /\ dict = <<>>
  /\ Serialized("List::serialize_value", <<>>, List_serialize_value(list))

\* dict.insert(key, entry)
DictInsert ==
  /\ bare_item = <<>> /\ params = <<>> /\ item = <<>> /\ list = <<>>
  /\ \E key \in DictKeys, entry \in DictEntries :
       /\ IndexMap_contains_key(dict, key) \/ Len(dict) < MaxMembers
       /\ dict' = IndexMap_insert(dict, key, entry)
       /\ call' = Call("Dictionary::insert", <<key, entry>>)
  /\ result' = Ok(<<>>)
  /\ output' = <<>>
  /\ UNCHANGED <<bare_item, params, item, list>>

\* dict.serialize_value()
SerializeDict ==
  /\ bare_item = <<>> /\ params = <<>> /\ item = <<>> /\ list = <<>>
  /\ Serialized("Dictionary::serialize_value", <<>>, Dictionary_serialize_value(dict))

\* Serializer::serialize_key(input_key, &mut output) on a new buffer
SerializeKey ==
  /\ Fresh
  /\ \E input_key \in KeyInputs :
       Serialized("serialize_key", input_key, serialize_key(input_key, <<>>))

\* Serializer::serialize_ref_parameter(name, &value, &mut output) on a
\* buffer that holds some text already
SerializeRefParameter ==
  /\ Fresh
  /\ \E name \in Keys, value \in ParamValues, buffer \in Buffers :
       Serialized("serialize_ref_parameter", <<name, to_ref_bare_item(value), buffer>>,
                  serialize_ref_parameter(name, to_ref_bare_item(value), buffer))

\* Parser::parse_item(input): the item parsed is held
ParseItem ==
  /\ Fresh
  /\ \E input \in ParseItemInputs :
       LET r == Parser_parse_item(input)
       IN  /\ item' = IF r.ok THEN <<r.val>> ELSE <<>>
           /\ call' = Call("Parser::parse_item", input)
           /\ result' = r
  /\ output' = <<>>
  /\ UNCHANGED <<bare_item, params, list, dict>>

\* Parser::parse_list(input): the list parsed is held
ParseList ==
  /\ Fresh
  /\ \E input \in ParseListInputs :
       LET r == Parser_parse_list(input)
       IN  /\ list' = IF r.ok THEN r.val ELSE <<>>
           /\ call' = Call("Parser::parse_list", input)
           /\ result' = r
  /\ output' = <<>>
  /\ UNCHANGED <<bare_item, params, item, dict>>

\* Parser::parse_dictionary(input): the dictionary parsed is held
ParseDictionary ==
  /\ Fresh
  /\ \E input \in ParseDictionaryInputs :
       LET r == Parser_parse_dictionary(input)
       IN  /\ dict' = IF r.ok THEN r.val ELSE IndexMap_new
           /\ call' = Call("Parser::parse_dictionary", input)
           /\ result' = r
  /\ output' = <<>>
  /\ UNCHANGED <<bare_item, params, item, list>>

\* Every value held is dropped
Drop ==
  /\ ~Idle \/ call.op # "none"
  /\ bare_item' = <<>>
  /\ params' = Parameters_new
  /\ item' = <<>>
  /\ list' = <<>>
  /\ dict' = IndexMap_new
  /\ call' = Call("none", <<>>)
  /\ result' = Ok(<<>>)
  /\ output' = <<>>

Next ==
  \/ NewInteger
  \/ NewDecimal
  \/ NewDecimalAgain
  \/ NewString
  \/ NewToken
  \/ NewByteSeq
  \/ NewBoolean
  \/ AsDecimal
  \/ AsInt
  \/ AsStr
  \/ AsByteSeq
  \/ AsBool
  \/ AsToken
  \/ ItemNew
  \/ ParamsInsert
  \/ ItemWithParams
  \/ SerializeItem
  \/ ListPush
  \/ SerializeList
  \/ DictInsert
  \/ SerializeDict
  \/ SerializeKey
  \/ SerializeRefParameter
  \/ ParseItem
  \/ ParseList
  \/ ParseDictionary
  \/ Drop

Spec == Init /\ [][Next]_vars

(***************************************************************************)
(* Properties                                                              *)
(***************************************************************************)

\* The texts joined by a separator
RECURSIVE Join(_, _)
Join(texts, sep) ==
  IF texts = <<>> THEN <<>>
  ELSE IF Len(texts) = 1 THEN texts[1]
  ELSE texts[1] \o sep \o Join(Tail(texts), sep)

\* The sequences of a sequence, one after the other
RECURSIVE Flatten(_)
Flatten(seqs) == IF seqs = <<>> THEN <<>> ELSE Head(seqs) \o Flatten(Tail(seqs))

\* The text of a value the serializer accepts
TextOf(r) == r.out

\* ---------------------------------------------------------------------
\* C1: new_integer(v) returns Ok holding exactly v when v has at most 15
\* digits (-999999999999999 <= v <= 999999999999999) and an error, with no
\* value, for every other 64-bit v: +-10^15, i64::MIN and i64::MAX included.
C1_IntegerRange ==
  call.op = "new_integer" =>
    /\ result.ok <=> Len(call.arg.mag) <= 15
    /\ result.ok => result.val = BareItem_Integer(call.arg) /\ bare_item = <<result.val>>
    /\ ~result.ok => bare_item = <<>>
    /\ call.arg \in {I64(FALSE, <<1>> \o Rep(0, 15)), I64(TRUE, <<1>> \o Rep(0, 15)),
                     I64_MIN, I64_MAX} => ~result.ok

\* The largest integer of the range was given and is held.
C1_Witness ==
  /\ call.op = "new_integer"
  /\ call.arg = I64(FALSE, Rep(9, 15))
  /\ bare_item = <<BareItem_Integer(I64(FALSE, Rep(9, 15)))>>

\* ---------------------------------------------------------------------
\* C2: new_decimal rounds to 3 fractional digits and then checks the
\* range: it succeeds exactly when the integer part of the rounded value has
\* at most 12 digits, and the value held is the rounded one.
\* 999999999999.999 is accepted; 1000000000000.1, 12345678912345.123 and
\* 999999999999.9996 (which rounds to 1000000000000.000) are rejected.
C2_DecimalRoundThenRange ==
  call.op = "new_decimal" =>
    LET rounded == round_dp(call.arg, 3)
    IN  /\ result.ok <=> Len(Strip(IntDigits(rounded))) <= 12
        /\ result.ok => result.val = BareItem_Decimal(rounded) /\ rounded.scale <= 3
        /\ call.arg = D_999999999999_999 => result.ok
        /\ call.arg \in {D_1000000000000_1, D_12345678912345_123, D_999999999999_9996}
             => ~result.ok

\* 999999999999.9996, whose integer part fits before rounding, was refused.
C2_Witness ==
  /\ call.op = "new_decimal"
  /\ call.arg = D_999999999999_9996
  /\ ~result.ok
  /\ bare_item = <<>>

\* The text item.serialize_value() gives for an item of the bare item alone
SerializedAlone(b) == TextOf(Item_serialize_value(Item_new(b)))

\* ---------------------------------------------------------------------
\* C3 as stated: a decimal constructed from 13.4565 serializes as 13.457.
C3_Original_TieRoundsUp ==
  call.op = "new_decimal" /\ call.arg = D_13_4565 =>
    result.ok /\ SerializedAlone(result.val) = Str(<<"1", "3", ".", "4", "5", "7">>)

\* C3 amended: the constructor rounds to 3 fractional digits, to the nearest
\* value and at a midpoint to the even digit: 13.4565 serializes as 13.456,
\* 13.4575 as 13.458, 13.45655 as 13.457, 13.4564 as 13.456, and 2.0 as 2.0.
C3_RoundHalfEven ==
  /\ call.op = "new_decimal" =>
       /\ call.arg = D_13_4565 =>
            result.ok /\ SerializedAlone(result.val) = Str(<<"1", "3", ".", "4", "5", "6">>)
       /\ call.arg = D_13_4575 =>
            result.ok /\ SerializedAlone(result.val) = Str(<<"1", "3", ".", "4", "5", "8">>)
       /\ call.arg = D_13_45655 =>
            result.ok /\ SerializedAlone(result.val) = Str(<<"1", "3", ".", "4", "5", "7">>)
       /\ call.arg = D_13_4564 =>
            result.ok /\ SerializedAlone(result.val) = Str(<<"1", "3", ".", "4", "5", "6">>)
       /\ call.arg = D_2_0 =>
            result.ok /\ SerializedAlone(result.val) = Str(<<"2", ".", "0">>)
  /\ call.op = "Item::serialize_value"
       /\ item[1] = Item_new(BareItem_Decimal(round_dp(D_13_4565, 3)))
       => result = Ok(Str(<<"1", "3", ".", "4", "5", "6">>))

\* The item of the decimal constructed from 13.4565 was serialized.
C3_Witness ==
  /\ call.op = "Item::serialize_value"
  /\ item = <<Item_new(unwrap(new_decimal(D_13_4565)))>>
  /\ result.ok

\* ---------------------------------------------------------------------
\* C4: new_string succeeds exactly when every character of the input is in
\* %x20-7E (the empty text included), and holds the input unchanged.
C4_StringPrintableAscii ==
  call.op = "new_string" =>
    /\ result.ok <=> \A i \in 1..Len(call.arg) : 32 <= call.arg[i] /\ call.arg[i] <= 126
    /\ result.ok => result.val = BareItem_String(call.arg) /\ bare_item = <<result.val>>
    /\ ~result.ok => bare_item = <<>>

\* A text ending in DEL was refused.
C4_Witness ==
  /\ call.op = "new_string"
  /\ call.arg = <<Ord("~"), 127>>
  /\ ~result.ok

\* sf-token = ( ALPHA / "*" ) *( tchar / ":" / "/" )
IsSfToken(t) ==
  /\ Len(t) >= 1
  /\ is_ascii_alphabetic(t[1]) \/ t[1] = Ord("*")
  /\ \A i \in 2..Len(t) : is_tchar(t[i]) \/ t[i] = Ord(":") \/ t[i] = Ord("/")

\* ---------------------------------------------------------------------
\* C5: new_token succeeds exactly when the input matches sf-token: it is
\* not empty, starts with ALPHA or "*", and goes on with tchar, ":" or "/".
C5_TokenGrammar ==
  call.op = "new_token" => (result.ok <=> IsSfToken(call.arg))

\* key = ( lcalpha / "*" ) *( lcalpha / DIGIT / "_" / "-" / "." / "*" )
IsKey(k) ==
  /\ Len(k) >= 1
  /\ is_ascii_lowercase(k[1]) \/ k[1] = Ord("*")
  /\ \A i \in 2..Len(k) :
       \/ is_ascii_lowercase(k[i])
       \/ is_ascii_digit(k[i])
       \/ k[i] \in {Ord("_"), Ord("-"), Ord("."), Ord("*")}

\* ---------------------------------------------------------------------
\* C6: serialize_key rejects every key that does not match the key grammar,
\* the empty key included, and writes a key that matches as it is.
C6_KeyGrammar ==
  call.op = "serialize_key" =>
    /\ result.ok <=> IsKey(call.arg)
    /\ result.ok => result.val = call.arg

\* The keys of a value, in the order in which the serializer meets them
ParamKeysOf(p) == [i \in 1..Len(p) |-> p[i][1]]
ItemKeys(it) == ParamKeysOf(it.params)
InnerListKeys(il) ==
  Flatten([i \in 1..Len(il.items) |-> ItemKeys(il.items[i])]) \o ParamKeysOf(il.params)
EntryKeys(e) == IF is(e, "Item") THEN ItemKeys(e.Item) ELSE InnerListKeys(e.InnerList)
ListKeys(l) == Flatten([i \in 1..Len(l) |-> EntryKeys(l[i])])
DictionaryKeys(d) == Flatten([i \in 1..Len(d) |-> <<d[i][1]>> \o EntryKeys(d[i][2])])

\* ---------------------------------------------------------------------
\* C7: serialize_value on a List or a Dictionary without members is an
\* error; with at least one member and only keys of the key grammar it is Ok.
C7_EmptyContainerRefused ==
  /\ call.op = "List::serialize_value" =>
       /\ list = <<>> => ~result.ok
       /\ list # <<>> /\ (\A i \in 1..Len(ListKeys(list)) : IsKey(ListKeys(list)[i]))
            => result.ok
  /\ call.op = "Dictionary::serialize_value" =>
       /\ dict = <<>> => ~result.ok
       /\ dict # <<>> /\ (\A i \in 1..Len(DictionaryKeys(dict)) : IsKey(DictionaryKeys(dict)[i]))
            => result.ok

\* The empty list was given to serialize_value, which refused it.
C7_Witness ==
  /\ call.op = "List::serialize_value"
  /\ list = <<>>
  /\ result = Err("serialize_list: serializing empty field is not allowed")

\* Key serialization refuses the key
Rejected(k) == ~serialize_key(k, <<>>).ok

\* The first key of a sequence that key serialization refuses
FirstRejected(keys) ==
  keys[CHOOSE i \in 1..Len(keys) : Rejected(keys[i]) /\ \A j \in 1..(i - 1) : ~Rejected(keys[j])]

\* What C8 says of a serialize_value call on a value with these keys
FailsOnlyOnKeys(keys, empty) ==
  /\ result.ok <=> ~empty /\ \A i \in 1..Len(keys) : ~Rejected(keys[i])
  /\ ~result.ok => result.val = <<>>
  /\ ~result.ok /\ ~empty => result.err = serialize_key(FirstRejected(keys), <<>>).err

\* ---------------------------------------------------------------------
\* C8: serialize_value fails only for a List or Dictionary without members
\* or for a key that key serialization refuses (of a dictionary member, or of
\* a parameter of an item, of an inner list or of an item in an inner list);
\* no bare item makes it fail.  The error is that of the first refused key in
\* output order, and no text is returned with it.
C8_FailsOnlyOnKeys ==
  /\ call.op = "Item::serialize_value" => FailsOnlyOnKeys(ItemKeys(item[1]), FALSE)
  /\ call.op = "List::serialize_value" => FailsOnlyOnKeys(ListKeys(list), list = <<>>)
  /\ call.op = "Dictionary::serialize_value" =>
       FailsOnlyOnKeys(DictionaryKeys(dict), dict = <<>>)

\* A list whose first refused key starts with a digit and whose later key
\* holds an uppercase letter was refused with the error of the first.
C8_Witness ==
  /\ call.op = "List::serialize_value"
  /\ list = << ListEntry_Item(Item_with_params(B_99, P_digit)),
               ListEntry_Item(Item_with_params(B_true, P_upper)) >>
  /\ result = Err("serialize_key: first character is not lcalpha or '*'")

\* ---------------------------------------------------------------------
\* C9: the text of a List or Dictionary of n >= 1 members is the texts of
\* its members, in order, joined by "," and one space: n - 1 separators, none
\* before the first member and none after the last.
C9_MembersJoined ==
  /\ call.op = "List::serialize_value" /\ result.ok =>
       result.val =
         Join([i \in 1..Len(list) |-> TextOf(serialize_list_member(list[i], <<>>))],
              Str(<<",", " ">>))
  /\ call.op = "Dictionary::serialize_value" /\ result.ok =>
       result.val =
         Join([i \in 1..Len(dict) |->
                 dict[i][1] \o TextOf(serialize_dict_member_value(dict[i][2], <<>>))],
              Str(<<",", " ">>))

\* A list of two members was serialized.
C9_Witness ==
  /\ call.op = "List::serialize_value"
  /\ list = <<ListEntry_Item(Item_new(B_tok)), ListEntry_InnerList(InnerList_new(<<>>))>>
  /\ result = Ok(Str(<<"t", "o", "k", ",", " ", "(", ")">>))

\* The text C10 gives a dictionary member
DictMemberText(key, value) ==
  key \o
    (IF is(value, "Item") /\ value.Item.bare_item = BareItem_Boolean(TRUE)
     THEN TextOf(serialize_parameters(value.Item.params, <<>>))
     ELSE Str(<<"=">>) \o
            (IF is(value, "Item") THEN TextOf(serialize_item(value.Item, <<>>))
             ELSE TextOf(serialize_inner_list(value.InnerList, <<>>))))

\* ---------------------------------------------------------------------
\* C10: a Dictionary member is its key, "=" and the member value, except
\* that for an Item whose bare item is Boolean true only the key and the
\* item's parameters are written, whatever the parameters; Boolean false is
\* written key=?0, and an InnerList member is never abbreviated.
C10_DictMemberAbbreviation ==
  call.op = "Dictionary::serialize_value" /\ result.ok =>
    /\ result.val =
         Join([i \in 1..Len(dict) |-> DictMemberText(dict[i][1], dict[i][2])],
              Str(<<",", " ">>))
    /\ dict = <<<<K_a, ListEntry_Item(Item_new(B_true))>>>> => result.val = Str(<<"a">>)
    /\ dict = <<<<K_a, ListEntry_Item(Item_new(B_false))>>>>
         => result.val = Str(<<"a", "=", "?", "0">>)

\* A dictionary of a true member with a parameter and a false member was
\* serialized.
C10_Witness ==
  /\ call.op = "Dictionary::serialize_value"
  /\ dict = << <<K_a, ListEntry_Item(Item_with_params(B_true, P_a))>>,
               <<K_b, ListEntry_Item(Item_new(B_false))>> >>
  /\ result = Ok(Str(<<"a", ";", "a", ",", " ", "b", "-", "=", "?", "0">>))

\* The text C11 gives a parameter: ";", the key, and "=" with the value's
\* text unless the value is Boolean true
ParameterText(key, value) ==
  Str(<<";">>) \o key \o
    (IF value = BareItem_Boolean(TRUE) THEN <<>>
     ELSE Str(<<"=">>) \o TextOf(serialize_ref_bare_item(to_ref_bare_item(value), <<>>)))

\* The texts of the parameters of a map, in map order
ParametersText(p) == Flatten([i \in 1..Len(p) |-> ParameterText(p[i][1], p[i][2])])

\* ---------------------------------------------------------------------
\* C11: the parameters of an item follow its bare item in map order, each
\* as ";" and its key, then "=" and its value unless the value is Boolean
\* true, when nothing follows the key; an empty map adds no character.
C11_ParametersInMapOrder ==
  call.op = "Item::serialize_value" /\ result.ok =>
    LET bare == TextOf(serialize_bare_item(item[1].bare_item, <<>>))
    IN  /\ result.val = bare \o ParametersText(item[1].params)
        /\ item[1].params = Parameters_new => result.val = bare
        /\ item[1] = Item_with_params(B_99, <<<<K_a, B_true>>, <<K_b, B_false>>>>)
             => result.val = Str(<<"9", "9", ";", "a", ";", "b", "-", "=", "?", "0">>)

\* An item with a true parameter followed by a false one was serialized.
C11_Witness ==
  /\ call.op = "Item::serialize_value"
  /\ item = <<Item_with_params(B_99, <<<<K_a, B_true>>, <<K_b, B_false>>>>)>>
  /\ result = Ok(Str(<<"9", "9", ";", "a", ";", "b", "-", "=", "?", "0">>))

\* The text C12 gives an inner list: "(", the items' texts joined by one
\* space, ")", the inner list's parameters
InnerListText(il) ==
  Str(<<"(">>)
  \o Join([i \in 1..Len(il.items) |-> TextOf(serialize_item(il.items[i], <<>>))], Str(<<" ">>))
  \o Str(<<")">>)
  \o TextOf(serialize_parameters(il.params, <<>>))

\* The text of a list member, an inner list written as C12 says
ListMemberText(member) ==
  IF is(member, "Item") THEN TextOf(serialize_item(member.Item, <<>>))
  ELSE InnerListText(member.InnerList)

\* Every key of the inner lists of a list is one that key serialization takes
InnerListKeysAccepted(l) ==
  \A i \in 1..Len(l) :
    is(l[i], "InnerList") =>
      \A j \in 1..Len(InnerListKeys(l[i].InnerList)) :
        ~Rejected(InnerListKeys(l[i].InnerList)[j])

\* ---------------------------------------------------------------------
\* C12: an inner list of k items is written "(", the k items joined by
\* exactly one space, ")" and the inner list's own parameters; with no item
\* it is "()" and the parameters, without error and without a space between
\* the parentheses.
C12_InnerListText ==
  call.op = "List::serialize_value" =>
    /\ result.ok =>
         result.val = Join([i \in 1..Len(list) |-> ListMemberText(list[i])], Str(<<",", " ">>))
    /\ (\A i \in 1..Len(list) : is(list[i], "InnerList"))
         /\ list # <<>> /\ InnerListKeysAccepted(list) => result.ok
    /\ list = <<ListEntry_InnerList(InnerList_new(<<>>))>> => result = Ok(Str(<<"(", ")">>))
    /\ list = <<ListEntry_InnerList(InnerList_with_params(<<>>, P_a))>>
         => result = Ok(Str(<<"(", ")", ";", "a">>))

\* A list of the inner list without items and an inner list of two items,
\* each with parameters, was serialized.
C12_Witness ==
  /\ call.op = "List::serialize_value"
  /\ list = << ListEntry_InnerList(InnerList_with_params(<<>>, P_a)),
               ListEntry_InnerList(
                 InnerList_with_params(<<Item_with_params(B_99, P_ab), Item_new(B_foo)>>, P_a)) >>
  /\ result = Ok(Str(<<"(", ")", ";", "a", ",", " ",
                       "(", "9", "9", ";", "a", "=", "?", "0", ";", "b", "-", "=", "t", "o", "k",
                       " ", "\"", "f", "o", "\\", "\"", "\"", ")", ";", "a">>))

\* The characters of a text after its first "."
AfterPoint(text) ==
  LET points == {i \in 1..Len(text) : text[i] = Ord(".")}
      first == CHOOSE i \in points : \A j \in points : i <= j
  IN  IF points = {} THEN <<>> ELSE SubSeq(text, first + 1, Len(text))

\* ---------------------------------------------------------------------
\* C13: the text of a Decimal has the one fractional digit 0 when the
\* value's fractional part is zero, and otherwise 1 to 3 fractional digits
\* of which the last is not 0, whatever scale the decimal was built with: a
\* decimal built from 1.50 or from 1.5000 is written 1.5.
C13_DecimalMinimalText ==
  call.op = "Item::serialize_value" /\ is(item[1].bare_item, "Decimal")
    /\ item[1].params = Parameters_new =>
    LET d == item[1].bare_item.Decimal
        frac == AfterPoint(result.val)
    IN  /\ result.ok
        /\ IF \A i \in 1..Len(FracDigits(d)) : FracDigits(d)[i] = 0
           THEN frac = Str(<<"0">>)
           ELSE Len(frac) \in 1..3 /\ frac[Len(frac)] # Ord("0")
        /\ item[1].bare_item \in {unwrap(new_decimal(D_1_50)), unwrap(new_decimal(D_1_5000))}
             => result.val = Str(<<"1", ".", "5">>)

\* A string body in which every backslash is followed by the "\" or DQUOTE it
\* escapes and no DQUOTE stands without a backslash
RECURSIVE WellEscaped(_)
WellEscaped(body) ==
  IF body = <<>> THEN TRUE
  ELSE IF Head(body) = Ord("\\")
  THEN Len(body) >= 2 /\ body[2] \in {Ord("\\"), Ord("\"")}
       /\ WellEscaped(SubSeq(body, 3, Len(body)))
  ELSE Head(body) # Ord("\"") /\ WellEscaped(Tail(body))

\* The body with the backslash of each pair dropped
RECURSIVE Unescape(_)
Unescape(body) ==
  IF body = <<>> THEN <<>>
  ELSE IF Head(body) = Ord("\\") /\ Len(body) >= 2
  THEN <<body[2]>> \o Unescape(SubSeq(body, 3, Len(body)))
  ELSE <<Head(body)>> \o Unescape(Tail(body))

\* How many characters of a text are "\" or DQUOTE
Specials(value) == Cardinality({i \in 1..Len(value) : value[i] \in {Ord("\\"), Ord("\"")}})

\* ---------------------------------------------------------------------
\* C14: a String is written DQUOTE, body, DQUOTE, where the body is the
\* value with one backslash before every "\" and every DQUOTE and nothing
\* else changed: the body holds no DQUOTE without its backslash, and dropping
\* the backslash of each pair gives back the value.
C14_StringEscaping ==
  call.op = "Item::serialize_value" /\ is(item[1].bare_item, "String")
    /\ item[1].params = Parameters_new =>
    LET value == item[1].bare_item.String
        text == result.val
        body == SubSeq(text, 2, Len(text) - 1)
    IN  /\ result.ok
        /\ Len(text) = Len(value) + Specials(value) + 2
        /\ text[1] = Ord("\"") /\ text[Len(text)] = Ord("\"")
        /\ WellEscaped(body)
        /\ Unescape(body) = value
        /\ value = Str(<<"\\", "\"">>) => text = Str(<<"\"", "\\", "\\", "\\", "\"", "\"">>)

\* The string of a backslash and a DQUOTE was serialized.
C14_Witness ==
  /\ call.op = "Item::serialize_value"
  /\ item = <<Item_new(BareItem_String(Str(<<"\\", "\"">>)))>>
  /\ result = Ok(Str(<<"\"", "\\", "\\", "\\", "\"", "\"">>))

\* The keys of a map, in the map's order
KeysOf(map) == [i \in 1..Len(map) |-> map[i][1]]

\* What C15 says of one insertion into a map: the keys are all different, a
\* new key comes last, a key already there stays where it is, and the key
\* inserted has the value given while every other key keeps its own.
InsertedInOrder(old, new, key, value) ==
  /\ \A i, j \in 1..Len(new) : new[i][1] = new[j][1] => i = j
  /\ KeysOf(new) = IF \E i \in 1..Len(old) : old[i][1] = key
                   THEN KeysOf(old) ELSE Append(KeysOf(old), key)
  /\ \A i \in 1..Len(new) :
       new[i][2] = IF new[i][1] = key THEN value ELSE old[i][2]

\* ---------------------------------------------------------------------
\* C15: in a Dictionary and in a Parameters map every key occurs once, in
\* the order of its first insertion; an insertion of a key already there
\* leaves the key in its place and gives it the new value; the members are
\* serialized in that order.
C15_InsertionOrder ==
  [][ /\ call'.op = "Dictionary::insert"
           => InsertedInOrder(dict, dict', call'.arg[1], call'.arg[2])
      /\ call'.op = "Parameters::insert"
           => InsertedInOrder(params, params', call'.arg[1], call'.arg[2])
      /\ call'.op = "Item::with_params" => item'[1].params = params
      /\ call'.op = "Dictionary::serialize_value" /\ result'.ok
           => result'.val =
                Join([i \in 1..Len(dict) |-> DictMemberText(dict[i][1], dict[i][2])],
                     Str(<<",", " ">>))
      /\ call'.op = "Item::serialize_value" /\ result'.ok
           => result'.val = TextOf(serialize_bare_item(item[1].bare_item, <<>>))
                            \o ParametersText(item[1].params)
    ]_vars

\* The first of two keys of a dictionary was inserted again and is still
\* the first, with the value of this insertion.
C15_Witness ==
  /\ call.op = "Dictionary::insert"
  /\ call.arg = <<K_a, ListEntry_Item(Item_new(B_false))>>
  /\ dict = << <<K_a, ListEntry_Item(Item_new(B_false))>>,
               <<K_b, ListEntry_Item(Item_new(B_true))>> >>

\* The constructors and the accessors of BareItem, by variant
Variants == {"Decimal", "Integer", "String", "ByteSeq", "Boolean", "Token"}
VariantOf(b) == CHOOSE v \in Variants : is(b, v)
ConstructorOf(v) ==
  CASE v = "Decimal" -> "new_decimal" [] v = "Integer" -> "new_integer"
    [] v = "String" -> "new_string" [] v = "ByteSeq" -> "new_byte_seq"
    [] v = "Boolean" -> "new_boolean" [] v = "Token" -> "new_token"
AccessorOf(v) ==
  CASE v = "Decimal" -> "as_decimal" [] v = "Integer" -> "as_int"
    [] v = "String" -> "as_str" [] v = "ByteSeq" -> "as_byte_seq"
    [] v = "Boolean" -> "as_bool" [] v = "Token" -> "as_token"
Constructors == {ConstructorOf(v) : v \in Variants}
Accessors == {AccessorOf(v) : v \in Variants}

\* A decimal without the zeros that end its fractional digits
RECURSIVE Normalized(_)
Normalized(d) ==
  IF d.scale > 0 /\ d.m[Len(d.m)] = 0
  THEN Normalized(Decimal(d.neg,
                          IF Len(d.m) = 1 THEN <<0>> ELSE SubSeq(d.m, 1, Len(d.m) - 1),
                          d.scale - 1))
  ELSE d

\* Two decimals are the same number
DecimalEq(a, b) == Normalized(a) = Normalized(b)

\* An accessor called right after a constructor returned a value: Some
\* exactly for the variant's own accessor
SomeForOwnVariantOnly ==
  call'.op \in Accessors =>
    (result' # <<>> <=> call'.op = AccessorOf(VariantOf(bare_item[1])))

\* ---------------------------------------------------------------------
\* C17 as stated: an accessor returns Some exactly for a bare item of its
\* variant, and the value is the one given to the constructor, for decimals
\* too: as_decimal(new_decimal(d)) = d.
C17_Original_AccessorReturnsArgument ==
  [][ /\ SomeForOwnVariantOnly
      /\ call.op \in Constructors /\ call'.op \in Accessors /\ result' # <<>> =>
           IF call.op = "new_decimal" THEN DecimalEq(result'[1], call.arg)
           ELSE result'[1] = call.arg
    ]_vars

\* C17 amended: an accessor returns Some exactly for a bare item of its
\* variant; the value is the one given to the constructor for as_int,
\* as_str, as_token, as_byte_seq and as_bool, and for as_decimal it is the
\* constructor's argument rounded to 3 fractional digits (the argument
\* itself when it has at most 3).
C17_AccessorReturnsHeldValue ==
  [][ /\ SomeForOwnVariantOnly
      /\ call.op \in Constructors /\ call'.op \in Accessors /\ result' # <<>> =>
           IF call.op = "new_decimal"
           THEN /\ DecimalEq(result'[1], round_dp(call.arg, 3))
                /\ call.arg.scale <= 3 => result'[1] = call.arg
                /\ result'[1].scale <= 3
           ELSE result'[1] = call.arg
    ]_vars

\* as_decimal returned 13.458, which new_decimal made of 13.4575.
C17_Witness ==
  /\ call.op = "as_decimal"
  /\ bare_item = <<unwrap(new_decimal(D_13_4575))>>
  /\ result = <<Decimal(FALSE, <<1, 3, 4, 5, 8>>, 3)>>

\* The bare items of a Parameters map, of an item, of an inner list and of a
\* list entry
BareItemsOfParams(p) == {p[i][2] : i \in 1..Len(p)}
BareItemsOfItem(it) == {it.bare_item} \cup BareItemsOfParams(it.params)
BareItemsOfInnerList(il) ==
  UNION {BareItemsOfItem(il.items[i]) : i \in 1..Len(il.items)} \cup BareItemsOfParams(il.params)
BareItemsOfEntry(e) ==
  IF is(e, "Item") THEN BareItemsOfItem(e.Item) ELSE BareItemsOfInnerList(e.InnerList)

\* Every bare item that exists: the one held, and those of the map, the
\* item, the list and the dictionary held
ExistingBareItems ==
  {bare_item[i] : i \in 1..Len(bare_item)}
  \cup BareItemsOfParams(params)
  \cup UNION {BareItemsOfItem(item[i]) : i \in 1..Len(item)}
  \cup UNION {BareItemsOfEntry(list[i]) : i \in 1..Len(list)}
  \cup UNION {BareItemsOfEntry(dict[i][2]) : i \in 1..Len(dict)}

\* The invariant of a bare item's variant (spec, 3)
VariantInvariant(b) ==
  CASE is(b, "Integer") -> Len(Strip(b.Integer.mag)) <= 15
    [] is(b, "Decimal") ->
         b.Decimal.scale <= 3 /\ Len(Strip(IntDigits(b.Decimal))) <= 12
    [] is(b, "String") ->
         \A i \in 1..Len(b.String) : 32 <= b.String[i] /\ b.String[i] <= 126
    [] is(b, "Token") -> IsSfToken(b.Token)
    [] OTHER -> TRUE

\* A failed constructor leaves no value, and a step leaves a bare item held
\* as it is, moves it into an item, or drops it; an item held is left as it is
\* or dropped.
ValuesAreKept ==
  /\ call'.op \in Constructors /\ ~result'.ok => bare_item' = <<>>
  /\ bare_item # <<>> =>
       \/ bare_item' = bare_item
       \/ bare_item' = <<>> /\ item' \in {<<>>, <<Item_new(bare_item[1])>>}
  /\ item # <<>> => item' = item \/ item' = <<>>

\* ---------------------------------------------------------------------
\* C18: after any calls of constructors, accessors and serializers, every
\* BareItem that exists satisfies its variant's invariant (Integer within
\* +-999999999999999, Decimal of at most 3 fractional and 12 integer digits,
\* String of printable ASCII, Token matching sf-token), a failed constructor
\* leaves no value, and no later call changes a constructed value.
C18_ValidationGate ==
  [][(\A b \in ExistingBareItems' : VariantInvariant(b)) /\ ValuesAreKept]_vars

\* What the buffer of the last Serializer call held before the call
BufferBefore ==
  IF call.op = "serialize_ref_parameter" THEN call.arg[3] ELSE <<>>

\* ---------------------------------------------------------------------
\* C19: when serialize_item, serialize_list, serialize_dict,
\* serialize_parameters or serialize_ref_parameter returns an error, the
\* buffer holds exactly what it held before the call: neither the members
\* written before the error nor the ";" of the refused parameter stay.
C19_BufferUnchangedOnError ==
  call.op \in {"Item::serialize_value", "List::serialize_value",
               "Dictionary::serialize_value", "serialize_ref_parameter"}
    /\ ~result.ok => output = BufferBefore

\* ---------------------------------------------------------------------
\* C20: validating again a decimal that validation returned succeeds and
\* returns the same value, the same number written with the same text: a
\* value once accepted is never rejected.
C20_DecimalValidateIdempotent ==
  [][ call'.op = "new_decimal" /\ bare_item # <<>> =>
        /\ call'.arg = bare_item[1].Decimal
        /\ result'.ok
        /\ DecimalEq(result'.val.Decimal, call'.arg)
        /\ result'.val = bare_item[1]
        /\ TextOf(serialize_bare_item(result'.val, <<>>))
             = TextOf(serialize_bare_item(bare_item[1], <<>>))
        /\ bare_item' = bare_item
    ]_vars

\* The decimal 13.458, which is no input of new_decimal but what it made of
\* 13.4575, was given to new_decimal again and is held.
C20_Witness ==
  /\ call.op = "new_decimal"
  /\ call.arg = Decimal(FALSE, <<1, 3, 4, 5, 8>>, 3)
  /\ call.arg \notin DecimalInputs
  /\ result.ok
  /\ bare_item = <<BareItem_Decimal(call.arg)>>

(***************************************************************************)
(* C16: round trip of the parser and the serializer                        *)
(***************************************************************************)

\* The canonical form a table of written forms gives for a text
CanonicalOf(forms, text) == (CHOOSE f \in forms : f[1] = text)[2]

\* The text of a table of written forms
IsFormOf(forms, text) == \E f \in forms : f[1] = text

\* The serializer's outcome on the value just parsed is the canonical form
SerializedCanonically(forms) ==
  /\ result'.ok
  /\ result'.val = CanonicalOf(forms, call.arg)

\* Parsing the text just serialized and serializing the value parsed gives
\* the same text again
ItemFixedPoint ==
  LET again == Parser_parse_item(result'.val)
  IN  again.ok /\ serialize_value_result(Item_serialize_value(again.val)) = result'

ListFixedPoint ==
  LET again == Parser_parse_list(result'.val)
  IN  again.ok /\ serialize_value_result(List_serialize_value(again.val)) = result'

DictionaryFixedPoint ==
  LET again == Parser_parse_dictionary(result'.val)
  IN  again.ok /\ serialize_value_result(Dictionary_serialize_value(again.val)) = result'

\* The step that serializes the value the parser has just returned
RoundTripOfItem ==
  /\ call.op = "Parser::parse_item" /\ call'.op = "Item::serialize_value"
  /\ IsFormOf(ValidItemForms, call.arg)
RoundTripOfList ==
  /\ call.op = "Parser::parse_list" /\ call'.op = "List::serialize_value"
  /\ IsFormOf(ValidListForms, call.arg)
RoundTripOfDictionary ==
  /\ call.op = "Parser::parse_dictionary" /\ call'.op = "Dictionary::serialize_value"
  /\ IsFormOf(ValidDictionaryForms, call.arg)

\* C16: for every input the grammar allows, serializing the parsed value
\* succeeds with the canonical form of the input (single spaces after the
\* separators, no false-valued boolean written out of place, numbers in
\* their minimal text), and that output parses and serializes to itself.
C16_RoundTripCanonical ==
  [][ /\ RoundTripOfItem => SerializedCanonically(ValidItemForms) /\ ItemFixedPoint
      /\ RoundTripOfList => SerializedCanonically(ValidListForms) /\ ListFixedPoint
      /\ RoundTripOfDictionary =>
           SerializedCanonically(ValidDictionaryForms) /\ DictionaryFixedPoint ]_vars

(***************************************************************************)
(* C21: a parameter value is written from the same data as an item value   *)
(***************************************************************************)

\* The RefBareItem variant of the kind of a BareItem variant
RefVariantOf(v) ==
  CASE v = "Decimal" -> "RefDecimal" [] v = "Integer" -> "RefInteger"
    [] v = "String" -> "RefString" [] v = "ByteSeq" -> "RefByteSeq"
    [] v = "Boolean" -> "RefBoolean" [] v = "Token" -> "RefToken"

\* to_ref_bare_item gives the variant of the same kind with the same value
SameKindSameValue(b) ==
  LET r == to_ref_bare_item(b)
  IN  /\ DOMAIN r = {RefVariantOf(VariantOf(b))}
      /\ r[RefVariantOf(VariantOf(b))] = b[VariantOf(b)]

\* The text of a bare item written as an item value, by BareItem::write
ItemValueText(b) == BareItem_write(b, <<>>)

\* The text of a bare item written as a parameter value, by RefBareItem::write
ParameterValueText(b) == RefBareItem_write(to_ref_bare_item(b), <<>>)

\* A parameter in terms of the item value text of its BareItem
ParameterTextOfBareItem(key, b) ==
  Str(<<";">>) \o key \o
    (IF b = BareItem_Boolean(TRUE) THEN <<>> ELSE Str(<<"=">>) \o ItemValueText(b))

\* ---------------------------------------------------------------------
\* C21: to_ref_bare_item gives for every parameter value of a serialized item the
\* RefBareItem of the same kind with the same value; written as a parameter
\* value a bare item gives the text it gives as an item value; the value of
\* a parameter is left out exactly when its BareItem is Boolean true; so the
\* text of the item is the item value text of its bare item followed, for
\* each parameter, by ";", the key and, unless the value is Boolean true,
\* "=" and the item value text of the parameter's bare item.
C21_RefPathWritesSameData ==
  call.op = "Item::serialize_value" /\ item # <<>> =>
    LET it == item[1]
    IN  /\ \A b \in BareItemsOfParams(it.params) :
             /\ SameKindSameValue(b)
             /\ ParameterValueText(b) = ItemValueText(b)
             /\ param_value_is_written(to_ref_bare_item(b)) <=> b # BareItem_Boolean(TRUE)
        /\ result.ok =>
             result.val = ItemValueText(it.bare_item) \o
               Flatten([i \in 1..Len(it.params) |->
                          ParameterTextOfBareItem(it.params[i][1], it.params[i][2])])

\* An item is serialized whose parameters hold a true boolean, written as
\* the bare key, a token and a byte sequence, written after "="
C21_Witness ==
  /\ call.op = "Item::serialize_value" /\ result.ok /\ item # <<>>
  /\ \E i, j, k \in 1..Len(item[1].params) :
       /\ item[1].params[i][2] = BareItem_Boolean(TRUE)
       /\ is(item[1].params[j][2], "Token")
       /\ is(item[1].params[k][2], "ByteSeq")
  /\ result.val = Str(<<"1", ";", "b", "=", ":", "a", "G", "k", "=", ":", ";", "t", "=", "t", "o", "k", ";", "y">>)

====
